---- MODULE Spec2Model ----
(***************************************************************************)
(* emit.gg: the server core (src/src/server.js) and the request/ack        *)
(* correlation of the server socket and the browser client                 *)
(* (src/src/browser.js), as state machines.                                *)
(*                                                                         *)
(* JavaScript runs every callback to completion, so one action is one      *)
(* macrotask: the arrival of a frame, the firing of a timer, a transport   *)
(* close, or one call of the public API.  The synchronous call tree below  *)
(* a callback (next -> middleware -> next -> ... -> done -> handler) is    *)
(* computed by the recursive operators next / invoke / dispatch.           *)
(***************************************************************************)
EXTENDS Integers, Sequences, FiniteSets, TLC

VARIABLES
    \* ---- EmitApp registries (server.js 11-17)
    handlers,       \* this.handlers : event -> [handler, middleware]
    middleware,     \* this.middleware : global middleware, in registration order
    \* ---- one inbound event frame and the closures _handleMessage creates for it
    frame,          \* the frame being dispatched, or NoFrame
    index,          \* index[c] : the `index` of the c-th _runMiddleware call (1 = global chain)
    replyCalled,    \* the `replyCalled` flag of _handleMessage
    pendingNext,    \* middleware that returned and will call next() from a later task
    wsOut,          \* frames the dispatch passed to ws.send, in order
    log,            \* history: every invocation, next() call, fault and error delivery
    \* ---- connections, rooms and tags (server.js 13-15, 194-261)
    wsState,        \* wsState[s] : "none" until the transport accepts s, then "open", then "closed"
    sockets,        \* app.sockets
    socketMap,      \* app.socketMap : socket id -> socket
    rooms,          \* app.rooms : room key -> member set, for the keys the Map holds
    socketRooms,    \* socketRooms[s] : socket.rooms
    socketTags,     \* socketTags[s] : socket.tags
    disconnects,    \* history: disconnects[s] = what each @disconnect call for s saw
    bcast,          \* history: the broadcast call just made and its socket.emit calls
    \* ---- outbound requests: o = "socket" is EmitSocket.request (server.js 429-442),
    \*      o = "client" is the browser Client.request (browser.js 156-174)
    pendingRequests,\* pendingRequests[o] : the ackIds the Map of o holds
    timers,         \* timers[o] : the ackIds whose timeout timer is armed
    outcome,        \* outcome[o][id] : state of the promise request() returned
    settles,        \* history: settles[o][id] = resolve/reject calls made on that promise
    readyState,     \* readyState of the client's WebSocket
    \* ---- a fleet of instances with the redis adapter (unnamed/part_002); the
    \*      sockets of the fleet carry fleet-wide unique ids
    installed,      \* installed[i] : app.plugin(redisAdapter({redis, pub, sub})) was called on i
    peerHandlers,   \* peerHandlers[i] : the '@connection' and '@disconnect' entries of app.handlers
    peerHost,       \* peerHost[s] : the instance whose transport accepted socket s, or NoInstance
    peerSockets,    \* peerSockets[i] : app.sockets of instance i (the keys of app.socketMap)
    peerRooms,      \* peerRooms[i] : app.rooms of instance i
    peerSocketRooms,\* peerSocketRooms[s] : socket.rooms
    inbox,          \* inbox[i] : messages the sub handle of i received and has not handled yet
    call,           \* history: the broadcast / emitTo call being followed through the fleet
    \* ---- the auxiliary store (the `redis` handle)
    storeSockets,   \* the fields of the hash <prefix>:sockets
    storeRooms,     \* storeRooms[r] : the members of the set <prefix>:room:<r> ({} = no key)
    storeUsers,     \* the hash <prefix>:users : field -> socketId
    roomExpired,    \* history: roomExpired[r] = the 24 h expiry of the set of r has fired
    userCall,       \* history: the user-presence call just made and how its promise settled
    \* ---- one client: the browser Client (browser.js) or the EmitClient (client.js)
    client,         \* the fields of the client object, its transports and its timers
    clientHist,     \* history: what the caller did and what the client did since
    \* ---- the heartbeat plugin on an EmitApp (test/test.js 190-223, server.js 33-69)
    beat,           \* the two system entries of app.handlers, and per connection: the
                    \* transport, the closure of the plugin (isAlive, timer) and history
    \* ---- the Express-style EmitApp (unnamed/part_005)
    express,        \* _middleware, _handlers and _anyHandlers, and per connection: the
                    \* _runMiddleware call of its connection and history
    \* ---- namespaces: EmitNamespace of the Express-style app (unnamed/part_005
    \*      222-258) and of the canonical app (server.js 176-192)
    naming,         \* the handler table after one registration through a chain of
                    \* namespaces, and the frame that arrived
    \* ---- the wire format of utils.js (encode, encodeAck, decode)
    codec,          \* the arguments of the last encode / encodeAck call, the text it
                    \* returned and what decode made of the text
    \* ---- EmitServer and EmitSocket of the node transport (src/transports/node.js)
    node,           \* the transports, server.rooms, socket.rooms, and history: the
                    \* to(room).emit call just made and its socket.emit calls
    goapp,
    goreq,
    golife,
    sub,
    lsn

dispatchVars == <<handlers, middleware, frame, index, replyCalled, pendingNext, wsOut, log>>

roomVars == <<wsState, sockets, socketMap, rooms, socketRooms, socketTags, disconnects, bcast>>

requestVars == <<pendingRequests, timers, outcome, settles, readyState>>

fleetVars ==
    <<installed, peerHandlers, peerHost, peerSockets, peerRooms, peerSocketRooms, inbox, call>>

storeVars == <<storeSockets, storeRooms, storeUsers, roomExpired, userCall>>

clientVars == <<client, clientHist>>

beatVars == <<beat>>

expressVars == <<express>>

namingVars == <<naming>>

codecVars == <<codec>>

nodeVars == <<node>>

goVars == <<goapp>>

goReqVars == <<goreq>>

goLifeVars == <<golife>>

subVars == <<sub>>

listenVars == <<lsn>>

\* what the dispatch of a frame by the framework leaves alone
outsideDispatch == <<roomVars, requestVars, fleetVars, storeVars, clientVars, beatVars, expressVars, namingVars, codecVars, nodeVars, goVars, goReqVars, goLifeVars, subVars, listenVars>>

\* what the connection and room operations leave alone
outsideRooms ==
    <<middleware, frame, index, replyCalled, pendingNext, wsOut, log, requestVars,
      fleetVars, storeVars, clientVars, beatVars, expressVars, namingVars, codecVars, nodeVars, goVars, goReqVars, goLifeVars, subVars, listenVars>>

\* what the request operations leave alone
outsideRequests == <<dispatchVars, roomVars, fleetVars, storeVars, clientVars, beatVars, expressVars, namingVars, codecVars, nodeVars, goVars, goReqVars, goLifeVars, subVars, listenVars>>

\* what the instances of the fleet and the store leave alone
outsideFleet == <<dispatchVars, roomVars, requestVars, clientVars, beatVars, expressVars, namingVars, codecVars, nodeVars, goVars, goReqVars, goLifeVars, subVars, listenVars>>

\* what the client leaves alone
outsideClient == <<dispatchVars, roomVars, requestVars, fleetVars, storeVars, beatVars, expressVars, namingVars, codecVars, nodeVars, goVars, goReqVars, goLifeVars, subVars, listenVars>>

\* what the heartbeat plugin leaves alone
outsideBeat == <<dispatchVars, roomVars, requestVars, fleetVars, storeVars, clientVars, expressVars, namingVars, codecVars, nodeVars, goVars, goReqVars, goLifeVars, subVars, listenVars>>

\* what the Express-style app leaves alone
outsideExpress == <<dispatchVars, roomVars, requestVars, fleetVars, storeVars, clientVars, beatVars, namingVars, codecVars, nodeVars, goVars, goReqVars, goLifeVars, subVars, listenVars>>

\* what the namespaces leave alone
outsideNaming == <<dispatchVars, roomVars, requestVars, fleetVars, storeVars, clientVars, beatVars, expressVars, codecVars, nodeVars, goVars, goReqVars, goLifeVars, subVars, listenVars>>

\* what encode and decode leave alone
outsideCodec == <<dispatchVars, roomVars, requestVars, fleetVars, storeVars, clientVars, beatVars, expressVars, namingVars, nodeVars, goVars, goReqVars, goLifeVars, subVars, listenVars>>

\* what the EmitServer of the node transport leaves alone
outsideNode == <<dispatchVars, roomVars, requestVars, fleetVars, storeVars, clientVars, beatVars, expressVars, namingVars, codecVars, goVars, goReqVars, goLifeVars, subVars, listenVars>>

\* the App of the Go implementation (go/emit): socket index, rooms, tags, and the last Broadcast
outsideGo == <<dispatchVars, roomVars, requestVars, fleetVars, storeVars, clientVars, beatVars, expressVars, namingVars, codecVars, nodeVars, goReqVars, goLifeVars, subVars, listenVars>>

\* what one Socket.Request of the Go implementation leaves alone
outsideGoReq == <<dispatchVars, roomVars, requestVars, fleetVars, storeVars, clientVars, beatVars, expressVars, namingVars, codecVars, nodeVars, goVars, goLifeVars, subVars, listenVars>>

\* what the read and write loops of the Go sockets leave alone
outsideGoLife == <<dispatchVars, roomVars, requestVars, fleetVars, storeVars, clientVars, beatVars, expressVars, namingVars, codecVars, nodeVars, goVars, goReqVars, subVars, listenVars>>

\* what the subscribe handler of a receiving instance leaves alone
outsideSub == <<dispatchVars, roomVars, requestVars, fleetVars, storeVars, clientVars, beatVars, expressVars, namingVars, codecVars, nodeVars, goVars, goReqVars, goLifeVars, listenVars>>

\* what the listener lists of the EmitClient leave alone
outsideListen == <<dispatchVars, roomVars, requestVars, fleetVars, storeVars, clientVars, beatVars, expressVars, namingVars, codecVars, nodeVars, goVars, goReqVars, goLifeVars, subVars>>

vars == <<dispatchVars, roomVars, requestVars, fleetVars, storeVars, clientVars, beatVars, expressVars, namingVars, codecVars, nodeVars, goVars, goReqVars, goLifeVars, subVars, listenVars>>

-----------------------------------------------------------------------------
(* Bounds *)

\* middleware functions registered in all (use() and the lists given to on())
MaxMiddleware == 2

\* connections the transport accepts
MaxSockets == 2

\* requests each side issues
MaxRequests == 2

\* connections the transports of the fleet accept
MaxPeers == 2

\* options.maxRetries (browser.js 70) / options.maxReconnectAttempts (client.js 131)
MaxRetries == 2

\* transports a client constructs in all, the first connection included
MaxTransports == 4

\* connections the transport of the app with the heartbeat plugin accepts
MaxBeats == 2

\* ticks of the heartbeat timer of one connection
MaxTicks == 3

\* connection middleware registered with use on the Express-style app
MaxUse == 2

\* connections the Express-style app accepts
MaxGuests == 2

\* namespaces nested in one another
MaxDepth == 2

\* connections the EmitServer of the node transport accepts
MaxNodeSockets == 2

\* connections the App of the Go implementation accepts
MaxGoSockets == 2

\* acknowledgment frames with the ackId of one Socket.Request that the peer sends
MaxAckFrames == 3

\* messages the send channel of a followed socket buffers (256 in socket.go 37)
MaxQueued == 1

\* local sockets of the instance that receives relayed broadcasts
MaxSubSockets == 2

\* on() and once() registrations made on the client for one event
MaxRegistrations == 3

\* waitFor calls made on the client for that event
MaxWaits == 1

-----------------------------------------------------------------------------
(* What application callbacks may do.  A registered function is represented *)
(* by its behaviour.                                                        *)

\* (req, next) => ...
\*   next       calls next() once, synchronously
\*   next2      calls next() twice, synchronously
\*   halt       returns without calling next()
\*   defer      returns, and calls next() once from a later task (timer, await)
\*   throw      throws synchronously
\*   reject     is async and throws: returns a rejected promise, next() never called
MiddlewareKinds == {"next", "next2", "halt", "defer", "throw", "reject"}

\* (req) => ...
\*   ok      returns normally
\*   reply   req.reply(...) and returns
\*   throw   throws synchronously
\*   reject  returns a rejected promise
HandlerKinds == {"ok", "reply", "throw", "reject"}

Events == {"a", "b"}        \* event strings a client may send
Routed == {"a"}             \* event strings the application registers with on()

NoAck == "none"
AckIds == {"k1"}
NoFrame == [event |-> "", ackId |-> NoAck]
Frames == [event : Events, ackId : AckIds \cup {NoAck}]

\* `event` of a parsed frame that has no string under "event" ({} or
\* {"ackId": ...} or {"event": 42}): const { event, data, ackId } = message
\* (server.js 289) reads undefined or a value no on() call used as a key
Undefined == "undefined"

\* frames that are valid JSON objects, carry no type 'ack' and no string event
ShapelessFrames == [event : {Undefined}, ackId : AckIds \cup {NoAck}]

Chains(n) == UNION {[1..k -> MiddlewareKinds] : k \in 0..n}

-----------------------------------------------------------------------------
(* History events *)

Ev(t, c, i) == [t |-> t, c |-> c, i |-> i]

\* The state a synchronous run threads through its calls; exc = an exception is
\* propagating up the call stack; micro = rejection reactions queued as microtasks.
RunState ==
    [frame |-> frame, index |-> index, replyCalled |-> replyCalled, pendingNext |-> pendingNext,
     wsOut |-> wsOut, log |-> log, micro |-> 0, exc |-> FALSE]

Logged(d, e) == [d EXCEPT !.log = Append(@, e)]

-----------------------------------------------------------------------------
(* EmitSocket._handleMessage: the closures built for one event frame *)

\* req.reply (server.js 336-338) wrapped to track replyCalled (366-372): with an
\* ackId every call sends an acknowledgment frame; without one it does nothing.
reply(d, data) ==
    IF d.frame.ackId # NoAck
    THEN [d EXCEPT !.replyCalled = TRUE,
                   !.wsOut = Append(@, [type |-> "ack", ackId |-> d.frame.ackId, data |-> data])]
    ELSE d

\* handleError (374-381): the @error handler, else console.error.
handleError(d) ==
    IF "@error" \in DOMAIN handlers
    THEN Logged(d, Ev("errorHandler", 0, 0))
    ELSE Logged(d, Ev("consoleError", 0, 0))

\* The chain a _runMiddleware call walks: the first call of a frame is given
\* app.middleware (395), every later one entry.middleware (408).
Chain(d, c) == IF c = 1 THEN middleware ELSE handlers[d.frame.event].middleware

\* safeCall(() => entry.handler(req)) (409, 383-392): a throw is caught, a returned
\* rejected promise gets handleError attached with .catch.
safeCallHandler(d, c) ==
    LET k  == handlers[d.frame.event].handler
        d1 == Logged(d, Ev("handler", c, 0))
    IN  CASE k = "reply"  -> reply(d1, "data")
          [] k = "throw"  -> handleError(Logged(d1, Ev("fault", c, 0)))
          [] k = "reject" -> [Logged(d1, Ev("fault", c, 0)) EXCEPT !.micro = @ + 1]
          [] OTHER        -> d1

\* anyEntry.handler(req) (397-403), called inside the body safeCall protects: a
\* throw leaves the body, a rejected promise gets handleError attached.
anyHandler(d) ==
    LET k  == handlers["@any"].handler
        d1 == Logged(d, Ev("any", 0, 0))
    IN  CASE k = "reply"  -> reply(d1, "data")
          [] k = "throw"  -> [Logged(d1, Ev("fault", 0, 0)) EXCEPT !.exc = TRUE]
          [] k = "reject" -> [Logged(d1, Ev("fault", 0, 0)) EXCEPT !.micro = @ + 1]
          [] OTHER        -> d1

RECURSIVE next(_, _), invoke(_, _, _), dispatch(_)

\* next with an off-by-one bound: done is called in place of the last middleware.
next_skipLast(d, c) ==
    IF d.index[c] + 1 < Len(Chain(d, c))
    THEN LET i == d.index[c] + 1
         IN  invoke([d EXCEPT !.index[c] = i], c, i)
    ELSE IF c = 1 THEN dispatch(d) ELSE safeCallHandler(d, c)

\* next that advances by itself when the middleware has returned.
next_autoAdvance(d, c) ==
    IF d.index[c] < Len(Chain(d, c))
    THEN LET i  == d.index[c] + 1
             d1 == invoke([d EXCEPT !.index[c] = i], c, i)
         IN  IF d1.exc \/ d1.index[c] > i THEN d1 ELSE next(d1, c)
    ELSE IF c = 1 THEN dispatch(d) ELSE safeCallHandler(d, c)

\* The `next` closure of one _runMiddleware call (263-276): c names the call, whose
\* `index` is d.index[c].  Past the end of the chain it calls done: for the global
\* chain the dispatch body, for a route chain safeCall of the handler.
next(d, c) ==
    IF d.index[c] < Len(Chain(d, c))
    THEN LET i == d.index[c] + 1
         IN  invoke([d EXCEPT !.index[c] = i], c, i)
    ELSE IF c = 1 THEN dispatch(d) ELSE safeCallHandler(d, c)

\* fn(req, next) (269): the i-th middleware of chain c runs.  An exception raised
\* below a synchronous next() call unwinds through the middleware that made it.
invoke(d, c, i) ==
    LET k  == Chain(d, c)[i]
        d1 == Logged(d, Ev("start", c, i))
        callNext(x) == next(Logged(x, Ev("next", c, i)), c)
    IN  CASE k = "next"      -> callNext(d1)
          [] k = "next2"     -> LET d2 == callNext(d1)
                                IN  IF d2.exc THEN d2 ELSE callNext(d2)
          [] k = "halt"      -> d1
          [] k = "defer"     -> [d1 EXCEPT !.pendingNext = @ \cup {[c |-> c, i |-> i]}]
          [] k = "throw"     -> [Logged(d1, Ev("fault", c, i)) EXCEPT !.exc = TRUE]
          [] k = "reject"    -> Logged(Logged(d1, Ev("fault", c, i)),
                                       Ev("unhandledRejection", c, i))

\* The done callback of the global chain (395-421): safeCall around the @any
\* handler, the lookup of the entry, its route chain, or the 'No handler' reply.
dispatch(d) ==
    LET d0     == Logged(d, Ev("done", 1, 0))
        hasAny == "@any" \in DOMAIN handlers
        d1     == IF hasAny THEN anyHandler(d0) ELSE d0
    IN  IF d1.exc
        THEN handleError([d1 EXCEPT !.exc = FALSE])
        ELSE IF d.frame.event \in DOMAIN handlers
             THEN LET c  == Len(d1.index) + 1
                      d2 == next([d1 EXCEPT !.index = Append(@, 0)], c)
                  IN  IF d2.exc THEN handleError([d2 EXCEPT !.exc = FALSE]) ELSE d2
             ELSE IF d.frame.ackId # NoAck
                  THEN reply(d1, "NoHandler")
                  ELSE IF ~hasAny THEN Logged(d1, Ev("consoleLog", 0, 0)) ELSE d1

\* The reactions attached with .catch(handleError) run as microtasks when the
\* callback that queued them has returned.
RECURSIVE runMicrotasks(_)
runMicrotasks(d) ==
    IF d.micro = 0 THEN d
    ELSE runMicrotasks(handleError([d EXCEPT !.micro = @ - 1]))

Commit(d) ==
    /\ index' = d.index
    /\ replyCalled' = d.replyCalled
    /\ pendingNext' = d.pendingNext
    /\ wsOut' = d.wsOut
    /\ log' = d.log

-----------------------------------------------------------------------------
(* Connections, rooms and tags.  Room, tag and `to` names are strings, written *)
(* as sequences of characters.                                                *)

Sockets == 1..MaxSockets

\* the names the application passes to join / leave, to tag / untag, and as `to`
RoomArgs == {<<"r">>, <<"#", "r">>, <<"#", "q">>}
TagArgs  == {<<"t">>, <<"*", "t">>}
ToArgs   == {<<>>, <<"#", "r">>, <<"#", "q">>, <<"r">>, <<"*", "t">>}

startsWith(str, ch) == Len(str) > 0 /\ str[1] = ch

\* if (!room.startsWith('#')) room = '#' + room  (233, 240)
roomKey(room) == IF startsWith(room, "#") THEN room ELSE <<"#">> \o room

\* tag names used as given, without the prefix.
tagKey_raw(name) == name

\* if (!name.startsWith('*')) name = '*' + name  (247, 253, 259)
tagKey(name) == IF startsWith(name, "*") THEN name ELSE <<"*">> \o name

\* socket.hasTag(name) (258-261)
hasTag(s, name) == tagKey(name) \in socketTags[s]

Without(f, k) == [x \in DOMAIN f \ {k} |-> f[x]]

\* _joinRoom that never adds the socket to the member set.
joinRoom_forget(rs, room, s) ==
    IF room \in DOMAIN rs THEN rs ELSE (room :> {}) @@ rs

\* EmitApp._joinRoom (108-113)
joinRoom(rs, room, s) ==
    LET has == IF room \in DOMAIN rs THEN rs ELSE (room :> {}) @@ rs
    IN  [has EXCEPT ![room] = @ \cup {s}]

\* _leaveRoom that keeps the entry of a room that became empty.
leaveRoom_keepEmpty(rs, room, s) ==
    IF room \in DOMAIN rs THEN [rs EXCEPT ![room] = @ \ {s}] ELSE rs

\* EmitApp._leaveRoom (115-123)
leaveRoom(rs, room, s) ==
    IF room \in DOMAIN rs
    THEN IF rs[room] \ {s} = {}
         THEN Without(rs, room)
         ELSE [rs EXCEPT ![room] = @ \ {s}]
    ELSE rs

RECURSIVE leaveEach(_, _, _)
leaveEach(rs, todo, s) ==
    IF todo = {} THEN rs
    ELSE LET room == CHOOSE r \in todo : TRUE
         IN  leaveEach(leaveRoom(rs, room, s), todo \ {room}, s)

\* _leaveAllRooms that leaves the first room only.
leaveAllRooms_first(rs, s) ==
    IF socketRooms[s] = {} THEN rs
    ELSE leaveRoom(rs, CHOOSE r \in socketRooms[s] : TRUE, s)

\* EmitApp._leaveAllRooms (125-127): socket.rooms.forEach(room => _leaveRoom(room, socket))
leaveAllRooms(rs, s) == leaveEach(rs, socketRooms[s], s)

\* broadcast that falls back to every socket when the room does not exist.
targets_allWhenMissing(to) ==
    IF to # <<>> /\ startsWith(to, "#")
    THEN IF to \in DOMAIN rooms THEN rooms[to] ELSE sockets
    ELSE IF to # <<>> /\ startsWith(to, "*")
         THEN {s \in sockets : hasTag(s, to)}
         ELSE sockets

\* The targets of EmitApp.broadcast (76-90); `to` absent is the empty string.
targets(to) ==
    IF to # <<>> /\ startsWith(to, "#")
    THEN IF to \in DOMAIN rooms THEN rooms[to] ELSE {}
    ELSE IF to # <<>> /\ startsWith(to, "*")
         THEN {s \in sockets : hasTag(s, to)}
         ELSE sockets

\* The targets of req.broadcast (343-355): the same three branches, written out
\* a second time in the closure.
reqTargets(to) ==
    IF to # <<>> /\ startsWith(to, "#")
    THEN IF to \in DOMAIN rooms THEN rooms[to] ELSE {}
    ELSE IF to # <<>> /\ startsWith(to, "*")
         THEN {s \in sockets : hasTag(s, to)}
         ELSE sockets

\* req.broadcast that tests includeSelf only: without it nobody is sent to.
reqEmits_selfOnly(self, to, includeSelf) ==
    [s \in Sockets |-> IF s \in reqTargets(to) /\ includeSelf THEN 1 ELSE 0]

\* targets.forEach(s => { if (includeSelf || s !== socket) s.emit(event, data) })
\* (357-361)
reqEmits(self, to, includeSelf) ==
    [s \in Sockets |-> IF s \in reqTargets(to) /\ (includeSelf \/ s # self) THEN 1 ELSE 0]

\* from = 0 : made by EmitApp.broadcast; from = s : by req.broadcast of socket s
NoBroadcast ==
    [made |-> FALSE, to |-> <<>>, emits |-> [s \in Sockets |-> 0],
     from |-> 0, includeSelf |-> FALSE]

InitRooms ==
    /\ wsState = [s \in Sockets |-> "none"]
    /\ sockets = {}
    /\ socketMap = <<>>
    /\ rooms = <<>>
    /\ socketRooms = [s \in Sockets |-> {}]
    /\ socketTags = [s \in Sockets |-> {}]
    /\ disconnects = [s \in Sockets |-> <<>>]
    /\ bcast = NoBroadcast

\* EmitApp._handleConnection (33-48): the next connection gets a fresh id.
connection(s) ==
    /\ wsState[s] = "none"
    /\ \A t \in Sockets : t < s => wsState[t] # "none"
    /\ wsState' = [wsState EXCEPT ![s] = "open"]
    /\ sockets' = sockets \cup {s}
    /\ socketMap' = (s :> s) @@ socketMap
    /\ bcast' = NoBroadcast
    /\ UNCHANGED <<rooms, socketRooms, socketTags, disconnects>>
    /\ UNCHANGED <<handlers, outsideRooms>>

\* EmitSocket.join (232-237); nothing in it looks at the state of the transport.
join(s, room) ==
    /\ wsState[s] # "none"
    /\ socketRooms' = [socketRooms EXCEPT ![s] = @ \cup {roomKey(room)}]
    /\ rooms' = joinRoom(rooms, roomKey(room), s)
    /\ bcast' = NoBroadcast
    /\ UNCHANGED <<wsState, sockets, socketMap, socketTags, disconnects>>
    /\ UNCHANGED <<handlers, outsideRooms>>

\* EmitSocket.leave (239-244)
leave(s, room) ==
    /\ wsState[s] # "none"
    /\ socketRooms' = [socketRooms EXCEPT ![s] = @ \ {roomKey(room)}]
    /\ rooms' = leaveRoom(rooms, roomKey(room), s)
    /\ bcast' = NoBroadcast
    /\ UNCHANGED <<wsState, sockets, socketMap, socketTags, disconnects>>
    /\ UNCHANGED <<handlers, outsideRooms>>

\* EmitSocket.tag (246-250)
tag(s, name) ==
    /\ wsState[s] = "open"
    /\ socketTags' = [socketTags EXCEPT ![s] = @ \cup {tagKey(name)}]
    /\ bcast' = NoBroadcast
    /\ UNCHANGED <<wsState, sockets, socketMap, rooms, socketRooms, disconnects>>
    /\ UNCHANGED <<handlers, outsideRooms>>

\* EmitSocket.untag (252-256)
untag(s, name) ==
    /\ wsState[s] = "open"
    /\ socketTags' = [socketTags EXCEPT ![s] = @ \ {tagKey(name)}]
    /\ bcast' = NoBroadcast
    /\ UNCHANGED <<wsState, sockets, socketMap, rooms, socketRooms, disconnects>>
    /\ UNCHANGED <<handlers, outsideRooms>>

\* ws.on('close') (220-229): the transport reports the close of a connection
\* once.  The @disconnect handler is called last; what it can observe then is
\* recorded.
close(s) ==
    /\ wsState[s] = "open"
    /\ LET rooms1     == leaveAllRooms(rooms, s)
           sockets1   == sockets \ {s}
           socketMap1 == Without(socketMap, s)
           seen == [inRoom      |-> \E r \in DOMAIN rooms1 : s \in rooms1[r],
                    emptyRoom   |-> \E r \in DOMAIN rooms1 : rooms1[r] = {},
                    inSockets   |-> s \in sockets1,
                    inSocketMap |-> s \in DOMAIN socketMap1]
       IN  /\ rooms' = rooms1
           /\ sockets' = sockets1
           /\ socketMap' = socketMap1
           /\ disconnects' = IF "@disconnect" \in DOMAIN handlers
                             THEN [disconnects EXCEPT ![s] = Append(@, seen)]
                             ELSE disconnects
    /\ wsState' = [wsState EXCEPT ![s] = "closed"]
    /\ bcast' = NoBroadcast
    /\ UNCHANGED <<socketRooms, socketTags>>
    /\ UNCHANGED <<handlers, outsideRooms>>

\* EmitApp.broadcast(event, {data, to}) (75-94): socket.emit once per target.
broadcast(to) ==
    /\ bcast' = [made |-> TRUE, to |-> to,
                 emits |-> [s \in Sockets |-> IF s \in targets(to) THEN 1 ELSE 0],
                 from |-> 0, includeSelf |-> FALSE]
    /\ UNCHANGED <<wsState, sockets, socketMap, rooms, socketRooms, socketTags, disconnects>>
    /\ UNCHANGED <<handlers, outsideRooms>>

\* req.broadcast(event, {data, to, includeSelf}) (340-362), called by a handler
\* or middleware with the req of a frame of socket `self`; a callback that kept
\* req can call it after that socket has closed.
reqBroadcast(self, to, includeSelf) ==
    /\ wsState[self] # "none"
    /\ bcast' = [made |-> TRUE, to |-> to, emits |-> reqEmits(self, to, includeSelf),
                 from |-> self, includeSelf |-> includeSelf]
    /\ UNCHANGED <<wsState, sockets, socketMap, rooms, socketRooms, socketTags, disconnects>>
    /\ UNCHANGED <<handlers, outsideRooms>>

-----------------------------------------------------------------------------
(* Outbound requests and their acknowledgments *)

Owners == {"socket", "client"}
RequestIds == 1..MaxRequests

InitRequests ==
    /\ pendingRequests = [o \in Owners |-> {}]
    /\ timers = [o \in Owners |-> {}]
    /\ outcome = [o \in Owners |-> [id \in RequestIds |-> "unused"]]
    /\ settles = [o \in Owners |-> [id \in RequestIds |-> 0]]
    /\ readyState = "OPEN"

\* resolve(...) / reject(...) of the promise: the first call decides, later ones
\* are ignored by the promise.
settled(o, id, how) ==
    /\ outcome' = [outcome EXCEPT ![o][id] = IF @ = "pending" THEN how ELSE @]
    /\ settles' = [settles EXCEPT ![o][id] = @ + 1]

\* A fresh ackId (crypto.randomUUID(), or 16 random base-36 digits).
FreshId(o, id) ==
    /\ outcome[o][id] = "unused"
    /\ \A j \in RequestIds : j < id => outcome[o][j] # "unused"

\* The body of request() once the frame can be sent: arm the timer, store the
\* entry, send (server.js 431-440, browser.js 162-172).
issue(o, id) ==
    /\ timers' = [timers EXCEPT ![o] = @ \cup {id}]
    /\ pendingRequests' = [pendingRequests EXCEPT ![o] = @ \cup {id}]
    /\ outcome' = [outcome EXCEPT ![o][id] = "pending"]
    /\ UNCHANGED settles

\* The ack branch of _handleMessage: clearTimeout, resolve, delete, when the Map
\* holds the ackId; nothing otherwise.
acknowledge(o, id) ==
    IF id \in pendingRequests[o]
    THEN /\ timers' = [timers EXCEPT ![o] = @ \ {id}]
         /\ settled(o, id, "resolved")
         /\ pendingRequests' = [pendingRequests EXCEPT ![o] = @ \ {id}]
    ELSE UNCHANGED <<timers, outcome, settles, pendingRequests>>

\* The timer callback: delete the entry, reject.
expire(o, id) ==
    /\ id \in timers[o]
    /\ timers' = [timers EXCEPT ![o] = @ \ {id}]
    /\ pendingRequests' = [pendingRequests EXCEPT ![o] = @ \ {id}]
    /\ settled(o, id, "rejected")

\* EmitSocket.request (server.js 429-442)
socketRequest(id) ==
    /\ FreshId("socket", id)
    /\ issue("socket", id)
    /\ UNCHANGED <<readyState, outsideRequests>>

\* The ack branch that resolves but neither clears the timer nor deletes the entry.
socketAck_noCleanup(id) ==
    /\ IF id \in pendingRequests["socket"]
       THEN settled("socket", id, "resolved")
       ELSE UNCHANGED <<outcome, settles>>
    /\ UNCHANGED <<timers, pendingRequests, readyState, outsideRequests>>

\* EmitSocket._handleMessage, message.type === 'ack' (server.js 279-287); the
\* peer chooses the ackId of the frames it sends.
socketAck(id) ==
    /\ acknowledge("socket", id)
    /\ UNCHANGED <<readyState, outsideRequests>>

\* The setTimeout callback of EmitSocket.request (server.js 434-437)
socketTimeout(id) ==
    /\ expire("socket", id)
    /\ UNCHANGED <<readyState, outsideRequests>>

\* Client.request (browser.js 156-174): rejects at once when the socket is not open.
clientRequest(id) ==
    /\ FreshId("client", id)
    /\ IF readyState # "OPEN"
       THEN /\ outcome' = [outcome EXCEPT !["client"][id] = "rejected"]
            /\ settles' = [settles EXCEPT !["client"][id] = @ + 1]
            /\ UNCHANGED <<timers, pendingRequests>>
       ELSE issue("client", id)
    /\ UNCHANGED <<readyState, outsideRequests>>

\* Client._handleMessage, message.type === 'ack' (browser.js 100-109)
clientAck(id) ==
    /\ readyState = "OPEN"
    /\ acknowledge("client", id)
    /\ UNCHANGED <<readyState, outsideRequests>>

\* The setTimeout callback of Client.request (browser.js 166-169)
clientTimeout(id) ==
    /\ expire("client", id)
    /\ UNCHANGED <<readyState, outsideRequests>>

\* The client's transport closes (browser.js 56-62) ...
clientClosed ==
    /\ readyState = "OPEN"
    /\ readyState' = "CLOSED"
    /\ UNCHANGED <<pendingRequests, timers, outcome, settles, outsideRequests>>

\* ... and a reconnect attempt installs an open one (browser.js 84-89).
clientReopened ==
    /\ readyState = "CLOSED"
    /\ readyState' = "OPEN"
    /\ UNCHANGED <<pendingRequests, timers, outcome, settles, outsideRequests>>

-----------------------------------------------------------------------------
(* The redis adapter (unnamed/part_002): a fleet of instances, each an EmitApp  *)
(* with the adapter installed, sharing one pub/sub pair and one auxiliary store *)

Instances == {"X", "Y"}
NoInstance == "none"

PeerIds == 1..MaxPeers

\* the names the handlers of the fleet pass to join / leave, and as `to`
PeerRoomArgs == {<<"r">>}
PeerToArgs   == {<<>>, <<"#", "r">>, <<"#", "q">>}

PeerRoomKeys == {roomKey(room) : room \in PeerRoomArgs} \cup {<<"#", "q">>}

\* channel = 'emit.gg' and `${channel}:direct` (21, 31-32)
channel == "emit.gg"
directChannel == "emit.gg:direct"

\* const instanceId = Math.random().toString(36).slice(2, 10) (27): one token per
\* process; two processes are taken to draw different tokens.
instanceId(i) == i

\* socket.tags of a socket of the fleet: its handlers call no tag().
peerTags(s) == {}

NoCall ==
    [kind |-> "none", at |-> NoInstance, to |-> <<>>, local |-> FALSE, target |-> 0,
     emits |-> [s \in PeerIds |-> 0], published |-> 0, handled |-> {}]

\* socket.emit called once for each socket of the set
emitOnce(ss) == [s \in PeerIds |-> IF s \in ss THEN 1 ELSE 0]

\* The targets of EmitApp.broadcast (server.js 76-90) on instance i, which the
\* override calls as originalBroadcast.
localTargets(i, to) ==
    IF to # <<>> /\ startsWith(to, "#")
    THEN IF to \in DOMAIN peerRooms[i] THEN peerRooms[i][to] ELSE {}
    ELSE IF to # <<>> /\ startsWith(to, "*")
         THEN {s \in peerSockets[i] : to \in peerTags(s)}
         ELSE peerSockets[i]

\* The targets the subscribe handler resolves for a primary-channel message
\* (part_002 48-62).
relayTargets(i, to) ==
    IF to # <<>> /\ startsWith(to, "#")
    THEN IF to \in DOMAIN peerRooms[i] THEN peerRooms[i][to] ELSE {}
    ELSE IF to # <<>> /\ startsWith(to, "*")
         THEN {s \in peerSockets[i] : to \in peerTags(s)}
         ELSE peerSockets[i]

\* A subscribe handler that handles the messages of its own instance as well.
ignored_never(i, m) == FALSE

\* if (message._instance === instanceId) return (part_002 38-39)
ignored(i, m) == m.instance = instanceId(i)

\* sub.on('message') (part_002 34-69): the sockets the handler of instance i
\* calls emit on for message m.
onMessage(i, m) ==
    IF ignored(i, m) THEN {}
    ELSE IF m.ch = directChannel
         THEN {s \in peerSockets[i] : s = m.target}
         ELSE IF m.ch = channel THEN relayTargets(i, m.to) ELSE {}

\* pub.publish(ch, ...) : the store hands the message to every subscribed handle,
\* the publisher's own included, in publication order.
publish(boxes, m) ==
    [j \in Instances |-> IF installed[j] THEN Append(boxes[j], m) ELSE boxes[j]]

\* emitTo that publishes whether or not the socket is local.
emitToMisses_always(i, socketId) == TRUE

\* const localSocket = app.socketMap.get(socketId); if (localSocket) {...; return}
\* (part_002 98-103)
emitToMisses(i, socketId) == socketId \notin peerSockets[i]

\* redis.sadd(key, id) (part_002 125); redis.expire follows it (126)
sadd(st, key, s) == [st EXCEPT ![key] = @ \cup {s}]

\* A _leaveRoom override that forgets the store.
srem_keep(st, key, s) == st

\* redis.srem(key, id) (part_002 134): a set that loses its last member is gone
srem(st, key, s) == [st EXCEPT ![key] = @ \ {s}]

\* _leaveAllRooms that mirrors nothing into the store.
sremEach_none(st, todo, s) == st

\* The redis.srem calls of the _leaveRoom override (part_002 132-135) that
\* EmitApp._leaveAllRooms (server.js 125-127) makes through this._leaveRoom, one
\* per room of socket.rooms.
sremEach(st, todo, s) ==
    [r \in DOMAIN st |-> IF r \in todo THEN st[r] \ {s} ELSE st[r]]

\* redis.srem(`${prefix}:room:*`, id) (part_002 174): SREM takes a key, not a
\* pattern; no set has the key '<prefix>:room:*' since room names start with '#'.
sremWildcard(st, s) ==
    [r \in DOMAIN st |-> IF r = <<"*">> THEN st[r] \ {s} ELSE st[r]]

InitFleet ==
    /\ installed = [i \in Instances |-> FALSE]
    /\ peerHandlers = [i \in Instances |-> [connection |-> FALSE, disconnect |-> "none"]]
    /\ peerHost = [s \in PeerIds |-> NoInstance]
    /\ peerSockets = [i \in Instances |-> {}]
    /\ peerRooms = [i \in Instances |-> <<>>]
    /\ peerSocketRooms = [s \in PeerIds |-> {}]
    /\ inbox = [i \in Instances |-> <<>>]
    /\ call = NoCall

\* application-level user ids
Users == {"u1", "u2"}

ReferenceError == "ReferenceError"

\* The hash field the user-presence methods pass to the store (part_002 204,
\* 213, 218, 224): the identifier odId, not the parameter userId.  Nothing in
\* the module declares odId, so evaluating it throws a ReferenceError.
userField(userId) == ReferenceError

\* told[u] : the socket id s when the last call about u that settled was
\* setUserOnline(u, s), -1 when it was setUserOffline(u), 0 before any
NoUserCall ==
    [op |-> "none", user |-> "", settled |-> "", value |-> 0, told |-> [u \in Users |-> 0]]

InitStore ==
    /\ storeSockets = {}
    /\ storeRooms = [r \in PeerRoomKeys |-> {}]
    /\ storeUsers = <<>>
    /\ roomExpired = [r \in PeerRoomKeys |-> FALSE]
    /\ userCall = NoUserCall

\* app.on(event, handler) (server.js 64-69) on instance i, by the application,
\* for '@connection' or '@disconnect': handlers.set replaces the entry.
appOn(i, event) ==
    /\ peerHandlers' =
           [peerHandlers EXCEPT ![i] =
               IF event = "@connection"
               THEN [@ EXCEPT !.connection = TRUE]
               ELSE [@ EXCEPT !.disconnect = "app"]]
    /\ UNCHANGED <<installed, peerHost, peerSockets, peerRooms, peerSocketRooms, inbox, call>>
    /\ UNCHANGED <<storeVars, outsideFleet>>

\* app.plugin(redisAdapter({redis, pub, sub})) on instance i (part_002 26-32,
\* 168-180): subscribes, overrides broadcast, emitTo, _joinRoom, _leaveRoom and
\* _handleConnection, and registers its '@disconnect' hook, which keeps the
\* entry it found as originalSocketClose.
plugin(i) ==
    /\ ~installed[i]
    /\ installed' = [installed EXCEPT ![i] = TRUE]
    /\ peerHandlers' =
           [peerHandlers EXCEPT ![i].disconnect = IF @ = "none" THEN "hook" ELSE "hookApp"]
    /\ UNCHANGED <<peerHost, peerSockets, peerRooms, peerSocketRooms, inbox, call>>
    /\ UNCHANGED <<storeVars, outsideFleet>>

\* The _handleConnection override (part_002 154-167) on a new connection of
\* instance i: the base method (server.js 33-48), then redis.hset of the id.
\* Instances listen once the adapter is installed.
peerConnection(i, s) ==
    /\ installed[i]
    /\ peerHost[s] = NoInstance
    /\ \A t \in PeerIds : t < s => peerHost[t] # NoInstance
    /\ peerHost' = [peerHost EXCEPT ![s] = i]
    /\ peerSockets' = [peerSockets EXCEPT ![i] = @ \cup {s}]
    /\ storeSockets' = storeSockets \cup {s}
    /\ UNCHANGED <<installed, peerHandlers, peerRooms, peerSocketRooms, inbox, call>>
    /\ UNCHANGED <<storeRooms, storeUsers, roomExpired, userCall, outsideFleet>>

\* socket.join(room) (server.js 232-237) by a handler of a connected socket:
\* app._joinRoom is the override (part_002 123-127): base _joinRoom, sadd, expire.
peerJoin(s, room) ==
    /\ peerHost[s] # NoInstance
    /\ s \in peerSockets[peerHost[s]]
    /\ peerSocketRooms' = [peerSocketRooms EXCEPT ![s] = @ \cup {roomKey(room)}]
    /\ peerRooms' = [peerRooms EXCEPT ![peerHost[s]] = joinRoom(@, roomKey(room), s)]
    /\ storeRooms' = sadd(storeRooms, roomKey(room), s)
    /\ UNCHANGED <<installed, peerHandlers, peerHost, peerSockets, inbox, call>>
    /\ UNCHANGED <<storeSockets, storeUsers, roomExpired, userCall, outsideFleet>>

\* socket.leave(room) (server.js 239-244): app._leaveRoom is the override
\* (part_002 132-135): base _leaveRoom, srem.
peerLeave(s, room) ==
    /\ peerHost[s] # NoInstance
    /\ s \in peerSockets[peerHost[s]]
    /\ peerSocketRooms' = [peerSocketRooms EXCEPT ![s] = @ \ {roomKey(room)}]
    /\ peerRooms' = [peerRooms EXCEPT ![peerHost[s]] = leaveRoom(@, roomKey(room), s)]
    /\ storeRooms' = srem(storeRooms, roomKey(room), s)
    /\ UNCHANGED <<installed, peerHandlers, peerHost, peerSockets, inbox, call>>
    /\ UNCHANGED <<storeSockets, storeUsers, roomExpired, userCall, outsideFleet>>

\* ws.on('close') (server.js 220-229) of a socket of the fleet: _leaveAllRooms
\* calls this._leaveRoom, the override, for every room of socket.rooms; then the
\* '@disconnect' entry runs: the adapter's hook (part_002 172-180) calls hdel
\* and the wildcard srem, an application handler registered after it does not.
peerClose(s) ==
    /\ peerHost[s] # NoInstance
    /\ s \in peerSockets[peerHost[s]]
    /\ LET i    == peerHost[s]
           hook == peerHandlers[i].disconnect \in {"hook", "hookApp"}
           st   == sremEach(storeRooms, peerSocketRooms[s], s)
       IN  /\ peerRooms' = [peerRooms EXCEPT ![i] = leaveEach(@, peerSocketRooms[s], s)]
           /\ peerSockets' = [peerSockets EXCEPT ![i] = @ \ {s}]
           /\ storeSockets' = IF hook THEN storeSockets \ {s} ELSE storeSockets
           /\ storeRooms' = IF hook THEN sremWildcard(st, s) ELSE st
    /\ UNCHANGED <<installed, peerHandlers, peerHost, peerSocketRooms, inbox, call>>
    /\ UNCHANGED <<storeUsers, roomExpired, userCall, outsideFleet>>

\* The store deletes the set of room r when its 86400 s expiry (part_002 126),
\* refreshed at every join, runs out.
roomExpires(r) ==
    /\ storeRooms[r] # {}
    /\ storeRooms' = [storeRooms EXCEPT ![r] = {}]
    /\ roomExpired' = [roomExpired EXCEPT ![r] = TRUE]
    /\ UNCHANGED <<fleetVars, storeSockets, storeUsers, userCall, outsideFleet>>

\* app.getTotalSockets (part_002 183-185): redis.hlen of the presence hash
getTotalSockets == Cardinality(storeSockets)

\* app.getAllSocketIds (part_002 194-196): redis.hkeys of the presence hash
getAllSocketIds == storeSockets

\* app.getRoomMembers (part_002 144-147): redis.smembers of the set of the room
getRoomMembers(room) == storeRooms[roomKey(room)]

\* app.getRoomSize (part_002 138-141): redis.scard of the set of the room
getRoomSize(room) == Cardinality(storeRooms[roomKey(room)])

\* An async method whose body throws returns a rejected promise.
rejected(op, userId, told) ==
    [op |-> op, user |-> userId, settled |-> "rejected", value |-> 0, told |-> told]

resolved(op, userId, value, told) ==
    [op |-> op, user |-> userId, settled |-> "resolved", value |-> value, told |-> told]

\* app.setUserOnline(userId, socketId) (part_002 203-209) on instance i
setUserOnline(i, userId, socketId) ==
    /\ installed[i]
    /\ peerHost[socketId] # NoInstance
    /\ LET told == [userCall.told EXCEPT ![userId] = socketId]
           f    == userField(userId)
       IN  IF f = ReferenceError
           THEN /\ userCall' = rejected("setUserOnline", userId, told)
                /\ UNCHANGED storeUsers
           ELSE /\ userCall' = resolved("setUserOnline", userId, 0, told)
                /\ storeUsers' = (f :> socketId) @@ storeUsers
    /\ UNCHANGED <<fleetVars, storeSockets, storeRooms, roomExpired, outsideFleet>>

\* app.setUserOffline(userId) (part_002 212-214)
setUserOffline(i, userId) ==
    /\ installed[i]
    /\ LET told == [userCall.told EXCEPT ![userId] = -1]
           f    == userField(userId)
       IN  IF f = ReferenceError
           THEN /\ userCall' = rejected("setUserOffline", userId, told)
                /\ UNCHANGED storeUsers
           ELSE /\ userCall' = resolved("setUserOffline", userId, 0, told)
                /\ storeUsers' = Without(storeUsers, f)
    /\ UNCHANGED <<fleetVars, storeSockets, storeRooms, roomExpired, outsideFleet>>

\* app.isUserOnline(userId) (part_002 217-220): value 1 = true, 0 = false
isUserOnline(i, userId) ==
    /\ installed[i]
    /\ LET f == userField(userId)
       IN  userCall' =
               IF f = ReferenceError
               THEN rejected("isUserOnline", userId, userCall.told)
               ELSE resolved("isUserOnline", userId,
                             IF f \in DOMAIN storeUsers THEN 1 ELSE 0, userCall.told)
    /\ UNCHANGED <<fleetVars, storeSockets, storeRooms, storeUsers, roomExpired, outsideFleet>>

\* app.getUserSocketId(userId) (part_002 223-229): value 0 = null
getUserSocketId(i, userId) ==
    /\ installed[i]
    /\ LET f == userField(userId)
       IN  userCall' =
               IF f = ReferenceError
               THEN rejected("getUserSocketId", userId, userCall.told)
               ELSE resolved("getUserSocketId", userId,
                             IF f \in DOMAIN storeUsers THEN storeUsers[f] ELSE 0,
                             userCall.told)
    /\ UNCHANGED <<fleetVars, storeSockets, storeRooms, storeUsers, roomExpired, outsideFleet>>

\* app.emitToUser(userId, event, data) (part_002 232-237): awaits
\* getUserSocketId and calls app.emitTo with the id it returned; value = that
\* id, 0 when emitTo was not called.
emitToUser(i, userId) ==
    /\ installed[i]
    /\ LET f == userField(userId)
       IN  userCall' =
               IF f = ReferenceError
               THEN rejected("emitToUser", userId, userCall.told)
               ELSE resolved("emitToUser", userId,
                             IF f \in DOMAIN storeUsers THEN storeUsers[f] ELSE 0,
                             userCall.told)
    /\ UNCHANGED <<fleetVars, storeSockets, storeRooms, storeUsers, roomExpired, outsideFleet>>

\* Calls are followed through the fleet one at a time (the adapter keeps no
\* state between calls): the next one is made when every handle has handled the
\* messages of the one before.
Quiet == \A j \in Instances : inbox[j] = <<>>

\* The app.broadcast override (part_002 75-92) called on instance i.
adapterBroadcast(i, to, local) ==
    /\ installed[i]
    /\ Quiet
    /\ call' = [kind |-> "broadcast", at |-> i, to |-> to, local |-> local, target |-> 0,
                emits |-> emitOnce(localTargets(i, to)),
                published |-> IF local THEN 0 ELSE 1, handled |-> {}]
    /\ inbox' = IF local THEN inbox
                ELSE publish(inbox, [ch |-> channel, instance |-> instanceId(i),
                                     to |-> to, target |-> 0])
    /\ UNCHANGED <<installed, peerHandlers, peerHost, peerSockets, peerRooms, peerSocketRooms>>
    /\ UNCHANGED <<storeVars, outsideFleet>>

\* The app.emitTo override (part_002 98-115) called on instance i with the id
\* of a socket some instance has accepted.
adapterEmitTo(i, socketId) ==
    /\ installed[i]
    /\ Quiet
    /\ peerHost[socketId] # NoInstance
    /\ LET miss == emitToMisses(i, socketId)
       IN  /\ call' = [kind |-> "emitTo", at |-> i, to |-> <<>>, local |-> FALSE,
                       target |-> socketId,
                       emits |-> emitOnce({socketId} \cap peerSockets[i]),
                       published |-> IF miss THEN 1 ELSE 0, handled |-> {}]
           /\ inbox' = IF miss
                       THEN publish(inbox, [ch |-> directChannel, instance |-> instanceId(i),
                                            to |-> <<>>, target |-> socketId])
                       ELSE inbox
    /\ UNCHANGED <<installed, peerHandlers, peerHost, peerSockets, peerRooms, peerSocketRooms>>
    /\ UNCHANGED <<storeVars, outsideFleet>>

\* sub.on('message', ...) (part_002 34-69) of instance i runs for the next
\* message its handle received; it publishes nothing.
subscribeMessage(i) ==
    /\ inbox[i] # <<>>
    /\ LET hit == onMessage(i, Head(inbox[i]))
       IN  call' = [call EXCEPT !.emits = [s \in PeerIds |-> @[s] + emitOnce(hit)[s]],
                                !.handled = @ \cup {i}]
    /\ inbox' = [inbox EXCEPT ![i] = Tail(@)]
    /\ UNCHANGED <<installed, peerHandlers, peerHost, peerSockets, peerRooms, peerSocketRooms>>
    /\ UNCHANGED <<storeVars, outsideFleet>>

-----------------------------------------------------------------------------
(* The clients: Client (browser.js) and EmitClient (client.js), created with   *)
(* reconnection enabled and the retry bound MaxRetries                         *)

ClientKinds == {"browser", "universal"}

\* A transport (a WebSocket object the client constructed): its state, and the
\* handlers it carries: "client" = onmessage / onclose / onerror of
\* _setupListeners (browser.js 46-67) or of _createConnection (client.js 68-126),
\* "attempt" = the onopen / onerror of a reconnect attempt (browser.js 84-93),
\* "connect" = the onopen / onerror of the static Client.connect (browser.js 32-42).
\*   connecting -> open | errored (the error event of a failed handshake)
\*   open -> closing (ws.close()); open | closing | errored -> closed
\*   connecting -> aborting (ws.close() before the handshake ended: the
\*   transport fails the connection) -> errored
Transport(state, on) == [state |-> state, on |-> on]

NoClient ==
    [kind |-> "none", ws |-> 0, transports |-> <<>>, reconnectAttempts |-> 0,
     timers |-> 0, reconnectTimer |-> "null", connected |-> FALSE, reconnect |-> FALSE,
     intentionalClose |-> FALSE, connectPromise |-> "null", connectTimer |-> FALSE]

\* closed    : the caller has called close() / disconnect(), and not connect() since
\* after     : a reconnect attempt was fired after that call
\* tries     : reconnect attempts fired since the last successful open
\* terminal  : terminal failure events emitted since the last successful open
\* reopened  : some reconnect attempt has opened
\* opened    : some transport has opened
\* promise   : the promise the latest connect call created
NoClientHist ==
    [closed |-> FALSE, after |-> FALSE, tries |-> 0, terminal |-> 0, reopened |-> FALSE,
     opened |-> FALSE, promise |-> "none"]

InitClient ==
    /\ client = NoClient
    /\ clientHist = NoClientHist

\* the client and its history, threaded through the calls of one handler
ClientState == [c |-> client, h |-> clientHist]

\* The retry bound tested one attempt too late.
exhausted_late(attempts, max) == attempts > max

\* this.reconnectAttempts >= maxRetries (browser.js 73);
\* this._reconnectAttempts >= this.options.maxReconnectAttempts (client.js 132)
exhausted(attempts, max) == attempts >= max

\* this._callListeners('@error', {error: 'Max reconnect attempts reached'})
\* (browser.js 74); this._emitLocal('reconnect_failed') (client.js 134)
terminalEvent(k) == [k EXCEPT !.h.terminal = IF @ < 2 THEN @ + 1 ELSE @]

\* EmitClient._scheduleReconnect (client.js 129-145)
scheduleReconnect(k) ==
    IF ~k.c.reconnect THEN k
    ELSE IF MaxRetries > 0 /\ exhausted(k.c.reconnectAttempts, MaxRetries)
         THEN terminalEvent(k)
         ELSE [k EXCEPT !.c.reconnectAttempts = @ + 1,
                        !.c.timers = @ + 1,
                        !.c.reconnectTimer = "pending"]

\* Client._attemptReconnect (browser.js 69-98), up to the setTimeout call
attemptReconnect(k) ==
    IF exhausted(k.c.reconnectAttempts, MaxRetries)
    THEN terminalEvent(k)
    ELSE [k EXCEPT !.c.reconnectAttempts = @ + 1, !.c.timers = @ + 1]

\* resolve / reject of the promise of connect: the first call settles it
settle(k, how) ==
    IF k.h.promise = "pending" THEN [k EXCEPT !.h.promise = how] ELSE k

\* EmitClient._createConnection (client.js 54-66), up to the handlers it installs;
\* `throws`: the WebSocket constructor throws
createConnection(k, throws) ==
    IF throws THEN scheduleReconnect(k)
    ELSE [k EXCEPT !.c.ws = Len(k.c.transports) + 1,
                   !.c.transports = Append(@, Transport("connecting", "client"))]

\* ws.close() on this.ws
wsCloseCall(k) ==
    IF k.c.ws = 0 THEN k
    ELSE IF k.c.transports[k.c.ws].state = "open"
         THEN [k EXCEPT !.c.transports[k.c.ws].state = "closing"]
         ELSE IF k.c.transports[k.c.ws].state = "connecting"
              THEN [k EXCEPT !.c.transports[k.c.ws].state = "aborting"]
              ELSE k

CommitClient(k) ==
    /\ client' = k.c
    /\ clientHist' = k.h
    /\ UNCHANGED outsideClient

\* The application creates its client.  browser: new Client(ws, {reconnect:
\* true, maxRetries, url}) on an open WebSocket (browser.js 10-20).  universal:
\* new EmitClient(url, {maxReconnectAttempts}) (client.js 15-35) and connect()
\* (38-52), which calls _createConnection.
construct(kind) ==
    /\ client.kind = "none"
    /\ client' =
           IF kind = "browser"
           THEN [NoClient EXCEPT !.kind = kind, !.ws = 1, !.reconnect = TRUE,
                                 !.transports = <<Transport("open", "client")>>]
           ELSE [NoClient EXCEPT !.kind = kind, !.ws = 1, !.reconnect = TRUE,
                                 !.connectPromise = "pending",
                                 !.transports = <<Transport("connecting", "client")>>]
    /\ clientHist' =
           IF kind = "browser"
           THEN [clientHist EXCEPT !.opened = TRUE]
           ELSE [clientHist EXCEPT !.promise = "pending"]
    /\ UNCHANGED outsideClient

\* The application calls the static Client.connect(url, options) (browser.js
\* 22-44): a promise, the connectTimeout timer and a WebSocket.
staticConnect ==
    /\ client.kind = "none"
    /\ client' = [NoClient EXCEPT !.kind = "connecting", !.connectTimer = TRUE,
                                  !.transports = <<Transport("connecting", "connect")>>]
    /\ clientHist' = [clientHist EXCEPT !.promise = "pending"]
    /\ UNCHANGED outsideClient

\* The connectTimeout timer of Client.connect fires (browser.js 26-28).
connectTimeout ==
    /\ client.connectTimer
    /\ CommitClient(settle([ClientState EXCEPT !.c.connectTimer = FALSE], "rejected"))

\* The caller calls connect() on its EmitClient (client.js 38-52).
connect(throws) ==
    /\ client.kind = "universal"
    /\ ~throws => Len(client.transports) < MaxTransports
    /\ CommitClient(
           IF client.connectPromise # "null" THEN ClientState
           ELSE createConnection(
                    [ClientState EXCEPT !.c.intentionalClose = FALSE,
                                        !.c.connectPromise = "pending",
                                        !.h.closed = FALSE,
                                        !.h.promise = "pending"],
                    throws))

\* The handshake of transport t succeeds: ws.onopen (client.js 68-75), or the
\* onopen of a reconnect attempt (browser.js 84-89), which makes t this.ws and
\* gives it the client's handlers.
wsOpen(t) ==
    /\ t \in DOMAIN client.transports
    /\ client.transports[t].state = "connecting"
    /\ LET k0 == [ClientState EXCEPT !.c.transports[t].state = "open",
                                     !.c.reconnectAttempts = 0,
                                     !.h.tries = 0, !.h.terminal = 0,
                                     !.h.opened = TRUE,
                                     !.h.reopened = @ \/ t > 1]
       IN  CommitClient(
               IF client.transports[t].on = "connect"
               THEN \* clearTimeout(timer); `new EmitClient(ws, ...)` names a class
                    \* this file does not define: the handler throws a
                    \* ReferenceError before resolve(client) (browser.js 32-37)
                    [ClientState EXCEPT !.c.transports[t].state = "open",
                                        !.c.connectTimer = FALSE,
                                        !.h.opened = TRUE]
               ELSE IF client.kind = "universal"
               THEN settle([k0 EXCEPT !.c.connected = TRUE, !.c.connectPromise = "null"],
                           "resolved")
               ELSE [k0 EXCEPT !.c.ws = t, !.c.transports[t].on = "client"])

\* The handshake of transport t fails, its error event: ws.onerror (client.js
\* 117-126), or the onerror of a reconnect attempt (browser.js 91-93).
wsError(t) ==
    /\ t \in DOMAIN client.transports
    /\ client.transports[t].state \in {"connecting", "aborting"}
    /\ LET k0 == [ClientState EXCEPT !.c.transports[t].state = "errored"]
       IN  CommitClient(
               IF client.transports[t].on = "connect"
               THEN settle([k0 EXCEPT !.c.connectTimer = FALSE], "rejected")
               ELSE IF client.kind = "universal"
               THEN IF client.reconnectAttempts = 0
                    THEN settle([k0 EXCEPT !.c.connectPromise = "null"], "rejected")
                    ELSE k0
               ELSE attemptReconnect(k0))

\* The close event of transport t, after the peer or the network closed it,
\* after ws.close(), or after its error event: ws.onclose (client.js 107-115,
\* browser.js 56-62); a reconnect attempt of the browser client has no onclose.
wsClose(t) ==
    /\ t \in DOMAIN client.transports
    /\ client.transports[t].state \in {"open", "closing", "errored"}
    /\ LET k0 == [ClientState EXCEPT !.c.transports[t].state = "closed"]
       IN  CommitClient(
               IF client.transports[t].on \in {"attempt", "connect"} THEN k0
               ELSE IF client.kind = "universal"
                    THEN LET k1 == [k0 EXCEPT !.c.connected = FALSE]
                         IN  IF ~k1.c.intentionalClose THEN scheduleReconnect(k1) ELSE k1
                    ELSE IF k0.c.reconnect THEN attemptReconnect(k0) ELSE k0)

\* A reconnect timer fires: _createConnection (client.js 142-144, 54-66), or the
\* setTimeout callback of _attemptReconnect (browser.js 80-97).  `throws`: the
\* WebSocket constructor throws.
reconnectTimeout(throws) ==
    /\ client.timers > 0
    /\ ~throws => Len(client.transports) < MaxTransports
    /\ LET k0 == [ClientState EXCEPT
                      !.c.timers = @ - 1,
                      !.c.reconnectTimer =
                          IF @ = "pending" /\ client.timers = 1 THEN "fired" ELSE @,
                      !.h.tries = IF @ <= MaxRetries THEN @ + 1 ELSE @,
                      !.h.after = @ \/ clientHist.closed]
       IN  CommitClient(
               IF client.kind = "universal"
               THEN createConnection(k0, throws)
               ELSE IF throws THEN attemptReconnect(k0)
                    ELSE [k0 EXCEPT
                              !.c.transports = Append(@, Transport("connecting", "attempt"))])

\* The caller calls close() (browser.js 180-183), or disconnect() / close()
\* (client.js 244-259).
callerClose ==
    /\ client.kind \in ClientKinds
    /\ ~clientHist.closed
    /\ LET k0 == [ClientState EXCEPT !.h.closed = TRUE]
       IN  CommitClient(
               IF client.kind = "universal"
               THEN LET k1 == [k0 EXCEPT
                                   !.c.intentionalClose = TRUE,
                                   !.c.timers = IF client.reconnectTimer = "pending"
                                                THEN @ - 1 ELSE @,
                                   !.c.reconnectTimer = "null"]
                    IN  wsCloseCall(k1)
               ELSE wsCloseCall([k0 EXCEPT !.c.reconnect = FALSE]))

-----------------------------------------------------------------------------
(* The heartbeat plugin (test/test.js 190-223) on an EmitApp (server.js)       *)

BeatSockets == 1..MaxBeats

\* what app.on stores under an event: this.handlers.set(event, {handler,
\* middleware}) (server.js 64-69), an object; "app", "heartbeat" and "ping"
\* name the function that was registered
Entry(handler) == [typeof |-> "object", handler |-> handler, middleware |-> <<>>]

\* handlers.get(event) of an event nobody registered
NoEntry == [typeof |-> "undefined", handler |-> "undefined", middleware |-> <<>>]

TypeError == "TypeError"

\* The call expression value(...) : only a function can be called; calling an
\* object throws a TypeError.
callValue(value) == IF value.typeof = "function" THEN "called" ELSE TypeError

\* ws      : "none" until the transport accepts the connection, "open",
\*           "terminated" after ws.terminate(), "closed" after the close event
\* timer   : the setInterval timer of the plugin runs for the connection
\* isAlive : the flag in the closure of the plugin
\* covered : history: the plugin was installed when the connection was accepted
\* ticks, missed, alive, pinged, faults : history per connection: ticks fired,
\*           ticks since the last pong, ticks that found isAlive true while an
\*           @ping entry was registered, calls of the @ping handler, faults
\*           thrown by a tick
InitBeat ==
    beat = [connection |-> NoEntry,
            ping       |-> NoEntry,
            plugged    |-> FALSE,
            ws         |-> [s \in BeatSockets |-> "none"],
            timer      |-> [s \in BeatSockets |-> FALSE],
            isAlive    |-> [s \in BeatSockets |-> FALSE],
            covered    |-> [s \in BeatSockets |-> FALSE],
            ticks      |-> [s \in BeatSockets |-> 0],
            missed     |-> [s \in BeatSockets |-> 0],
            alive      |-> [s \in BeatSockets |-> 0],
            pinged     |-> [s \in BeatSockets |-> 0],
            faults     |-> [s \in BeatSockets |-> 0]]

\* app.plugin(heartbeat({interval})) : app.on('@connection', ...) (test/test.js
\* 195-197, server.js 50-69)
heartbeat ==
    /\ ~beat.plugged
    /\ beat' = [beat EXCEPT !.plugged = TRUE, !.connection = Entry("heartbeat")]
    /\ UNCHANGED outsideBeat

\* app.on('@connection', handler) by the application or another plugin
onConnection ==
    /\ beat.connection # Entry("app")
    /\ beat' = [beat EXCEPT !.connection = Entry("app")]
    /\ UNCHANGED outsideBeat

\* app.on('@ping', handler) by the application
onPing ==
    /\ beat.ping = NoEntry
    /\ beat' = [beat EXCEPT !.ping = Entry("ping")]
    /\ UNCHANGED outsideBeat

\* The transport accepts connection s: _handleConnection calls the handler of
\* the '@connection' entry (server.js 44-47); the handler of the plugin sets
\* isAlive and starts the timer (test/test.js 197-216).
beatConnection(s) ==
    /\ beat.ws[s] = "none"
    /\ LET b0 == [beat EXCEPT !.ws[s] = "open", !.covered[s] = beat.plugged]
       IN  beat' = IF beat.connection.handler = "heartbeat"
                   THEN [b0 EXCEPT !.isAlive[s] = TRUE, !.timer[s] = TRUE]
                   ELSE b0
    /\ UNCHANGED outsideBeat

\* A pong of connection s arrives: socket.ws.on('pong') (test/test.js 199-201)
pong(s) ==
    /\ beat.ws[s] = "open"
    /\ beat.timer[s]
    /\ beat' = [beat EXCEPT !.isAlive[s] = TRUE, !.missed[s] = 0]
    /\ UNCHANGED outsideBeat

\* The interval timer of connection s fires (test/test.js 203-216).
tick(s) ==
    /\ beat.timer[s]
    /\ beat.ticks[s] < MaxTicks
    /\ beat' =
         IF ~beat.isAlive[s]
         THEN [beat EXCEPT !.ticks[s] = @ + 1,
                           !.ws[s] = IF @ = "open" THEN "terminated" ELSE @]
         ELSE LET pingHandler == beat.ping
                  b0 == [beat EXCEPT !.ticks[s] = @ + 1,
                                     !.isAlive[s] = FALSE,
                                     !.missed[s] = @ + 1]
              IN  IF pingHandler = NoEntry THEN b0
                  ELSE IF callValue(pingHandler) = TypeError
                       THEN [b0 EXCEPT !.alive[s] = @ + 1, !.faults[s] = @ + 1]
                       ELSE [b0 EXCEPT !.alive[s] = @ + 1, !.pinged[s] = @ + 1]
    /\ UNCHANGED outsideBeat

\* The close event of connection s: socket.ws.on('close') of the plugin clears
\* the timer (test/test.js 218-220).
beatClose(s) ==
    /\ beat.ws[s] \in {"open", "terminated"}
    /\ beat' = [beat EXCEPT !.ws[s] = "closed", !.timer[s] = FALSE]
    /\ UNCHANGED outsideBeat

-----------------------------------------------------------------------------
(* The Express-style EmitApp (unnamed/part_005): connection middleware and     *)
(* the dispatch of frames to the handlers of the application                   *)

Guests == 1..MaxGuests

\* What a connection middleware (socket, next) does:
\*   "next"  : calls next() before it returns
\*   "later" : async, awaits something first and calls next() in a later task
\*   "halt"  : returns without ever calling next()
UseKinds == {"next", "later", "halt"}

\* The synchronous part of next() of _runMiddleware (part_005 55-72) from
\* `index` on, and what `await next()` then yields:
\*   done    : next() ran with index >= length, the chain completed
\*   pending : an async middleware has not settled yet
\*   passed  : the value _runMiddleware returns once nothing is pending,
\*             index >= this._middleware.length
RECURSIVE runChain(_, _)
runChain(chain, i) ==
    IF i >= Len(chain)
    THEN [index |-> i, done |-> TRUE, pending |-> FALSE, passed |-> TRUE]
    ELSE IF chain[i + 1] = "next" THEN runChain(chain, i + 1)
    ELSE IF chain[i + 1] = "later"
    THEN [index |-> i + 1, done |-> FALSE, pending |-> TRUE, passed |-> FALSE]
    ELSE [index |-> i + 1, done |-> FALSE, pending |-> FALSE,
          passed |-> i + 1 >= Len(chain)]

NotRun == [index |-> 0, done |-> FALSE, pending |-> FALSE, passed |-> FALSE]

\* ws      : "none" until the server accepts the connection, then "open"
\* chain   : the _runMiddleware call of the connection
\* active  : membership in _activeSockets
\* invoked : history: the handlers _handleEvent called for a frame of the
\*           connection, each with whether the chain had completed by then
InitExpress ==
    express = [middleware  |-> <<>>,
               handlers    |-> FALSE,
               anyHandlers |-> FALSE,
               ws          |-> [s \in Guests |-> "none"],
               chain       |-> [s \in Guests |-> NotRun],
               active      |-> {},
               invoked     |-> [s \in Guests |-> {}]]

\* app.use(fn) (part_005 20-23)
expressUse(kind) ==
    /\ Len(express.middleware) < MaxUse
    /\ express' = [express EXCEPT !.middleware = Append(@, kind)]
    /\ UNCHANGED outsideExpress

\* app.on(event, handler) for the event the frames carry (part_005 25-31)
expressOn ==
    /\ ~express.handlers
    /\ express' = [express EXCEPT !.handlers = TRUE]
    /\ UNCHANGED outsideExpress

\* app.onAny(handler) (part_005 33-36)
expressOnAny ==
    /\ ~express.anyHandlers
    /\ express' = [express EXCEPT !.anyHandlers = TRUE]
    /\ UNCHANGED outsideExpress

\* The server accepts connection s: the 'connection' listener of listen
\* (part_005 155-177): _setupSocket first, then the middleware chain.
expressConnection(s) ==
    /\ express.ws[s] = "none"
    /\ LET ran == runChain(express.middleware, 0)
       IN  express' = [express EXCEPT
                           !.ws[s] = "open",
                           !.chain[s] = ran,
                           !.active = IF ~ran.pending /\ ~ran.passed
                                      THEN @ \ {s} ELSE @ \cup {s}]
    /\ UNCHANGED outsideExpress

\* The async middleware connection s waits for calls next().
expressNext(s) ==
    /\ express.chain[s].pending
    /\ LET ran == runChain(express.middleware, express.chain[s].index)
       IN  express' = [express EXCEPT
                           !.chain[s] = ran,
                           !.active = IF ~ran.pending /\ ~ran.passed
                                      THEN @ \ {s} ELSE @]
    /\ UNCHANGED outsideExpress

\* An event frame of connection s arrives: the 'message' listener _setupSocket
\* installed (part_005 109-143) calls app._handleEvent (74-94).
expressMessage(s) ==
    /\ express.ws[s] = "open"
    /\ LET called == (IF express.handlers THEN {"on"} ELSE {})
                         \cup (IF express.anyHandlers THEN {"onAny"} ELSE {})
       IN  express' = [express EXCEPT
                           !.invoked[s] = @ \cup (called \X {express.chain[s].done})]
    /\ UNCHANGED outsideExpress

-----------------------------------------------------------------------------
(* Namespaces.  Prefixes and event names are strings, written as sequences of  *)
(* characters.                                                                 *)

NsVariants == {"express", "canonical"}

Prefixes == {<<"a">>, <<"u">>}

LocalEvents == {<<"l">>, <<"u">>}

\* the chains of prefixes p1..pk of app.namespace(p1).namespace(p2)...
PrefixChains == UNION {[1..k -> Prefixes] : k \in 1..MaxDepth}

\* the default of the `separator` parameter (part_005 38, 223); a nested
\* namespace inherits it: separator ?? this._separator (part_005 251)
separator == <<":">>

\* The prefix of the innermost namespace alone, without its parents.
getFullPrefix_leaf(chain) == chain[Len(chain)]

\* EmitNamespace._getFullPrefix (part_005 229-234) of the innermost namespace
\* of the chain
RECURSIVE getFullPrefix(_)
getFullPrefix(chain) ==
    IF Len(chain) > 1
    THEN getFullPrefix(SubSeq(chain, 1, Len(chain) - 1)) \o separator \o chain[Len(chain)]
    ELSE chain[1]

\* the key EmitNamespace.on hands to app.on (part_005 244-248)
fullEvent(chain, event) == getFullPrefix(chain) \o separator \o event

\* this.prefix of the namespace app.ns(p1).ns(p2)... of the canonical app:
\* new EmitNamespace(this.app, this.prefix + prefix) (server.js 71-73, 189-191)
RECURSIVE nsPrefix(_)
nsPrefix(chain) ==
    IF Len(chain) > 1
    THEN nsPrefix(SubSeq(chain, 1, Len(chain) - 1)) \o chain[Len(chain)]
    ELSE chain[1]

\* the key EmitNamespace.on of the canonical app sets: this.prefix + event
\* (server.js 182-187)
nsEvent(chain, event) == nsPrefix(chain) \o event

NoName == <<>>

InitNaming ==
    naming = [variant |-> "none", chain |-> <<>>, event |-> NoName, handlers |-> {},
              frame |-> NoName, invoked |-> FALSE]

\* The application registers handler h under `event` through the chain of
\* namespaces: on of the innermost namespace, then app.on (part_005 25-31:
\* push on the list of the key; server.js 64-69: handlers.set).
namespaceOn(variant, chain, event) ==
    /\ naming.variant = "none"
    /\ naming' = [naming EXCEPT
                      !.variant = variant, !.chain = chain, !.event = event,
                      !.handlers = {IF variant = "express" THEN fullEvent(chain, event)
                                    ELSE nsEvent(chain, event)}]
    /\ UNCHANGED outsideNaming

\* An event frame arrives: this._handlers.get(event) (part_005 75-76),
\* this.app.handlers.get(event) (server.js 405-406); h runs if the table has
\* the key.
namespaceFrame(event) ==
    /\ naming.variant # "none"
    /\ naming.frame = NoName
    /\ naming' = [naming EXCEPT !.frame = event, !.invoked = event \in naming.handlers]
    /\ UNCHANGED outsideNaming

-----------------------------------------------------------------------------
(* The wire format (utils.js).  A JavaScript value is a record of its type and *)
(* a printed form; a JSON text is the sequence of the properties of the        *)
(* top-level object, each a key and the literal of its value.                  *)

Value(typeof, v) == [typeof |-> typeof, v |-> v]

Undef == Value("undefined", "")

\* const MessageType = { EVENT: 0, ACK: 1 } (utils.js 7-10)
MessageType == [EVENT |-> Value("number", "0"), ACK |-> Value("number", "1")]

\* the arguments the callers of encode and encodeAck pass
EventArgs == {Value("string", ""), Value("string", "e")}

DataArgs ==
    {Undef, Value("null", ""), Value("boolean", "true"), Value("boolean", "false"),
     Value("number", "0"), Value("number", "7"), Value("string", ""),
     Value("string", "x"), Value("object", "k:1"), Value("array", "1,2")}

AckIdArgs == {Undef, Value("string", ""), Value("string", "k1")}

\* ToBoolean, as `if (ackId)` applies it (utils.js 15)
truthy(value) ==
    ~ \/ value.typeof \in {"undefined", "null"}
      \/ value = Value("string", "")
      \/ value = Value("number", "0")
      \/ value = Value("boolean", "false")

\* the JSON literal of a value that is not undefined
literal(value) ==
    CASE value.typeof = "string" -> <<"\"", value.v, "\"">>
      [] value.typeof = "object" -> <<"{", value.v, "}">>
      [] value.typeof = "array"  -> <<"[", value.v, "]">>
      [] value.typeof = "null"   -> <<"null">>
      [] OTHER                   -> <<value.v>>

\* JSON.stringify of an object given as the sequence of its properties: a
\* property whose value is undefined is left out
RECURSIVE stringify(_)
stringify(props) ==
    IF props = <<>> THEN <<>>
    ELSE IF Head(props).value = Undef THEN stringify(Tail(props))
    ELSE <<[key |-> Head(props).key, literal |-> literal(Head(props).value)]>>
             \o stringify(Tail(props))

\* the value a JSON literal stands for
parseLiteral(lit) ==
    CASE lit[1] = "\""                -> Value("string", lit[2])
      [] lit[1] = "{"                 -> Value("object", lit[2])
      [] lit[1] = "["                 -> Value("array", lit[2])
      [] lit[1] = "null"              -> Value("null", "")
      [] lit[1] \in {"true", "false"} -> Value("boolean", lit[1])
      [] OTHER                        -> Value("number", lit[1])

\* parsed.key of the object JSON.parse returns for the text
property(text, key) ==
    IF \E i \in DOMAIN text : text[i].key = key
    THEN parseLiteral(text[CHOOSE i \in DOMAIN text : text[i].key = key].literal)
    ELSE Undef

Property(key, value) == [key |-> key, value |-> value]

\* encode that never writes the ackId.
encode_noAck(event, data, ackId) ==
    stringify(<<Property("e", event), Property("d", data)>>)

\* encode (utils.js 13-20)
encode(event, data, ackId) ==
    stringify(<<Property("e", event), Property("d", data)>>
              \o (IF truthy(ackId)
                  THEN <<Property("a", ackId), Property("t", MessageType.EVENT)>>
                  ELSE <<>>))

\* encodeAck (utils.js 23-25)
encodeAck(ackId, data) ==
    stringify(<<Property("t", MessageType.ACK), Property("a", ackId), Property("d", data)>>)

\* decode (utils.js 28-51) of a text JSON.parse accepts
decode(text) ==
    IF property(text, "t") = MessageType.ACK
    THEN [type |-> MessageType.ACK, ackId |-> property(text, "a"),
          data |-> property(text, "d")]
    ELSE IF property(text, "e").typeof = "string"
         THEN [type |-> MessageType.EVENT, event |-> property(text, "e"),
               data |-> property(text, "d"), ackId |-> property(text, "a")]
         ELSE [type |-> Value("null", "")]

InitCodec ==
    codec = [op |-> "none", event |-> Undef, data |-> Undef, ackId |-> Undef,
             text |-> <<>>, decoded |-> [type |-> Undef]]

\* A sender calls encode(event, data, ackId).
encodeCall(event, data, ackId) ==
    /\ codec' = [op |-> "encode", event |-> event, data |-> data, ackId |-> ackId,
                 text |-> encode(event, data, ackId), decoded |-> [type |-> Undef]]
    /\ UNCHANGED outsideCodec

\* A sender calls encodeAck(ackId, data).
encodeAckCall(ackId, data) ==
    /\ codec' = [op |-> "encodeAck", event |-> Undef, data |-> data, ackId |-> ackId,
                 text |-> encodeAck(ackId, data), decoded |-> [type |-> Undef]]
    /\ UNCHANGED outsideCodec

\* The receiver calls decode on the text.
decodeCall ==
    /\ codec.op # "none"
    /\ codec.decoded = [type |-> Undef]
    /\ codec' = [codec EXCEPT !.decoded = decode(codec.text)]
    /\ UNCHANGED outsideCodec

-----------------------------------------------------------------------------
(* EmitServer and EmitSocket of the node transport (src/transports/node.js)    *)

NodeSockets == 1..MaxNodeSockets

NodeRooms == {"r", "q"}

\* null, the default of the excludeSocket parameter (node.js 346)
NoSocket == 0

NoToEmit == [made |-> FALSE, from |-> NoSocket, room |-> "", emits |-> [s \in NodeSockets |-> 0]]

InitNode ==
    node = [ws          |-> [s \in NodeSockets |-> "none"],
            rooms       |-> <<>>,
            socketRooms |-> [s \in NodeSockets |-> {}],
            sent        |-> NoToEmit]

\* EmitServer._joinRoom (node.js 329-334)
nodeJoinRoom(rs, room, s) ==
    IF room \in DOMAIN rs
    THEN [rs EXCEPT ![room] = @ \cup {s}]
    ELSE (room :> {s}) @@ rs

\* EmitServer._leaveRoom (node.js 336-344)
nodeLeaveRoom(rs, room, s) ==
    IF room \in DOMAIN rs
    THEN IF rs[room] \ {s} = {}
         THEN [x \in DOMAIN rs \ {room} |-> rs[x]]
         ELSE [rs EXCEPT ![room] = @ \ {s}]
    ELSE rs

\* this.rooms.forEach(room => this.leave(room)) (node.js 186)
RECURSIVE nodeLeaveEach(_, _, _)
nodeLeaveEach(rs, left, s) ==
    IF left = {} THEN rs
    ELSE LET room == CHOOSE x \in left : TRUE
         IN  nodeLeaveEach(nodeLeaveRoom(rs, room, s), left \ {room}, s)

\* EmitServer._emitToRoom (node.js 346-355) with EmitSocket.emit (225-231):
\* the socket.emit calls that send a frame, per socket
emitToRoom(rs, wsOf, room, excludeSocket) ==
    [s \in NodeSockets |->
        IF room \in DOMAIN rs /\ s \in rs[room] /\ s # excludeSocket /\ wsOf[s] = "open"
        THEN 1 ELSE 0]

\* wss.on('connection') (node.js 306-311)
nodeConnection(s) ==
    /\ node.ws[s] = "none"
    /\ node' = [node EXCEPT !.ws[s] = "open", !.sent = NoToEmit]
    /\ UNCHANGED outsideNode

\* socket.join(room) (node.js 251-256)
nodeJoin(s, room) ==
    /\ node.ws[s] = "open"
    /\ node' = [node EXCEPT !.socketRooms[s] = @ \cup {room},
                            !.rooms = nodeJoinRoom(@, room, s),
                            !.sent = NoToEmit]
    /\ UNCHANGED outsideNode

\* socket.leave(room) (node.js 258-263)
nodeLeave(s, room) ==
    /\ node.ws[s] = "open"
    /\ node' = [node EXCEPT !.socketRooms[s] = @ \ {room},
                            !.rooms = nodeLeaveRoom(@, room, s),
                            !.sent = NoToEmit]
    /\ UNCHANGED outsideNode

\* ws.on('close') (node.js 184-189)
nodeClose(s) ==
    /\ node.ws[s] = "open"
    /\ node' = [node EXCEPT !.ws[s] = "closed",
                            !.socketRooms[s] = {},
                            !.rooms = nodeLeaveEach(@, node.socketRooms[s], s),
                            !.sent = NoToEmit]
    /\ UNCHANGED outsideNode

\* socket.to(room).emit(event, data) (node.js 266-272)
toEmit(s, room) ==
    /\ node.ws[s] = "open"
    /\ node' = [node EXCEPT
                    !.sent = [made |-> TRUE, from |-> s, room |-> room,
                              emits |-> emitToRoom(node.rooms, node.ws, room, s)]]
    /\ UNCHANGED outsideNode

-----------------------------------------------------------------------------
(* App and Socket of the Go implementation (go/emit)                           *)
(* A Go string is the sequence of its characters.                              *)

GoSockets == 1..MaxGoSockets

\* arguments of Socket.Join and Socket.Leave
GoRoomArgs == {<<"r">>, <<"#", "r">>}

\* arguments of Socket.Tag and Socket.Untag
GoTagArgs == {<<"t">>, <<"*", "t">>}

\* the `to` arguments of App.Broadcast: empty, a room, a tag, anything else
GoTargets == {<<>>, <<"#", "r">>, <<"*", "t">>, <<"a">>}

NoGoBroadcast == [made |-> FALSE, to |-> <<>>, emits |-> [s \in GoSockets |-> 0]]

\* New() (part_008 22-28) and the zero values of the sync.Maps
InitGo ==
    goapp = [conn    |-> [s \in GoSockets |-> "none"],
             sockets |-> {},
             rooms   |-> <<>>,
             rooms_s |-> [s \in GoSockets |-> {}],
             tags    |-> [s \in GoSockets |-> {}],
             sent    |-> NoGoBroadcast]

\* if room[0] != '#' { room = "#" + room } (socket.go 198-200, 208-210)
roomName(room) == IF room[1] # "#" THEN <<"#">> \o room ELSE room

\* if name[0] != '*' { name = "*" + name } (socket.go 218-220, 227-229, 237-239)
tagName(name) == IF name[1] # "*" THEN <<"*">> \o name ELSE name

\* Socket.HasTag (socket.go 236-243)
HasTag(tagsOf, name) == tagName(name) \in tagsOf

\* App.joinRoom (part_008 159-162)
goJoinRoom(rs, room, s) ==
    IF room \in DOMAIN rs
    THEN [rs EXCEPT ![room] = @ \cup {s}]
    ELSE (room :> {s}) @@ rs

\* App.leaveRoom (part_008 164-169)
goLeaveRoom(rs, room, s) ==
    IF room \in DOMAIN rs THEN [rs EXCEPT ![room] = @ \ {s}] ELSE rs

\* s.rooms.Range(... s.Leave(key) ...) (socket.go 249-252)
RECURSIVE goLeaveEach(_, _, _)
goLeaveEach(rs, left, s) ==
    IF left = {} THEN rs
    ELSE LET room == CHOOSE x \in left : TRUE
         IN  goLeaveEach(goLeaveRoom(rs, room, s), left \ {room}, s)

\* App.Broadcast (part_008 67-104): the socket.emit calls it makes, per socket
Broadcast(app, to) ==
    IF to # <<>>
    THEN LET sendTo ==
                 IF to[1] = "#"
                 THEN IF to \in DOMAIN app.rooms
                      THEN app.rooms[to] \cap app.sockets
                      ELSE {}
                 ELSE IF to[1] = "*"
                 THEN {s \in app.sockets : HasTag(app.tags[s], to)}
                 ELSE app.sockets
         IN  [s \in GoSockets |-> IF s \in sendTo THEN 1 ELSE 0]
    ELSE [s \in GoSockets |-> 0]

\* App.handleWebSocket (part_008 132-157)
handleWebSocket(s) ==
    /\ goapp.conn[s] = "none"
    /\ goapp' = [goapp EXCEPT !.conn[s] = "open",
                              !.sockets = @ \cup {s},
                              !.sent = NoGoBroadcast]
    /\ UNCHANGED outsideGo

\* Socket.Join (socket.go 197-205)
goJoin(s, room) ==
    /\ goapp.conn[s] = "open"
    /\ goapp' = [goapp EXCEPT !.rooms_s[s] = @ \cup {roomName(room)},
                              !.rooms = goJoinRoom(@, roomName(room), s),
                              !.sent = NoGoBroadcast]
    /\ UNCHANGED outsideGo

\* Socket.Leave (socket.go 207-215)
goLeave(s, room) ==
    /\ goapp.conn[s] = "open"
    /\ goapp' = [goapp EXCEPT !.rooms_s[s] = @ \ {roomName(room)},
                              !.rooms = goLeaveRoom(@, roomName(room), s),
                              !.sent = NoGoBroadcast]
    /\ UNCHANGED outsideGo

\* Socket.Tag (socket.go 217-224)
goTag(s, name) ==
    /\ goapp.conn[s] = "open"
    /\ goapp' = [goapp EXCEPT !.tags[s] = @ \cup {tagName(name)},
                              !.sent = NoGoBroadcast]
    /\ UNCHANGED outsideGo

\* Socket.Untag (socket.go 226-234)
goUntag(s, name) ==
    /\ goapp.conn[s] = "open"
    /\ goapp' = [goapp EXCEPT !.tags[s] = @ \ {tagName(name)},
                              !.sent = NoGoBroadcast]
    /\ UNCHANGED outsideGo

\* Socket.disconnect (socket.go 245-265)
goDisconnect(s) ==
    /\ goapp.conn[s] = "open"
    /\ goapp' = [goapp EXCEPT !.conn[s] = "closed",
                              !.rooms_s[s] = {},
                              !.rooms = goLeaveEach(@, goapp.rooms_s[s], s),
                              !.sockets = @ \ {s},
                              !.sent = NoGoBroadcast]
    /\ UNCHANGED outsideGo

\* a call of App.Broadcast(event, data, to) (part_008 67-104)
goBroadcast(to) ==
    /\ goapp' = [goapp EXCEPT !.sent = [made |-> TRUE, to |-> to,
                                        emits |-> Broadcast(goapp, to)]]
    /\ UNCHANGED outsideGo

-----------------------------------------------------------------------------
(* Socket.Request of the Go implementation (go/emit/socket.go 164-195) and the *)
(* goroutines that settle it: the time.AfterFunc function and one              *)
(* handleMessage goroutine per acknowledgment frame (socket.go 63, 90-101).    *)
(* Every action is one statement of one goroutine.                             *)

AckFrames == 1..MaxAckFrames

\* New Socket, no Request made
InitGoReq ==
    goreq = [caller  |-> "idle",
             outcome |-> "none",
             buffered |-> 0,
             closed  |-> FALSE,
             pending |-> FALSE,
             timer   |-> "none",
             ack     |-> [a \in AckFrames |-> "none"],
             panic   |-> FALSE]

\* a panic ends the process: no goroutine takes another step
running == ~goreq.panic

\* replyChan := make(chan map[string]any, 1); timer := time.AfterFunc(...)
\* (socket.go 169-175)
requestArm ==
    /\ running
    /\ goreq.caller = "idle"
    /\ goreq' = [goreq EXCEPT !.caller = "armed", !.timer = "armed"]
    /\ UNCHANGED outsideGoReq

\* s.pendingRequests.Store(ackID, ...) (socket.go 177-180)
requestStore ==
    /\ running
    /\ goreq.caller = "armed"
    /\ goreq' = [goreq EXCEPT !.caller = "stored", !.pending = TRUE]
    /\ UNCHANGED outsideGoReq

\* s.emit(Message{... AckID: ackID}) (socket.go 182-186)
requestEmit ==
    /\ running
    /\ goreq.caller = "stored"
    /\ goreq' = [goreq EXCEPT !.caller = "waiting"]
    /\ UNCHANGED outsideGoReq

\* reply, ok := <-replyChan and the two returns (socket.go 188-193): a value
\* in the buffer is received also when the channel is closed
requestReceive ==
    /\ running
    /\ goreq.caller = "waiting"
    /\ goreq.buffered > 0 \/ goreq.closed
    /\ goreq' = [goreq EXCEPT
                    !.caller = "returned",
                    !.outcome = IF goreq.buffered > 0 THEN "reply" ELSE "timeout",
                    !.buffered = IF goreq.buffered > 0 THEN @ - 1 ELSE @]
    /\ UNCHANGED outsideGoReq

\* the timeout elapses: the runtime starts the AfterFunc function in its own
\* goroutine (socket.go 172)
timerFire ==
    /\ running
    /\ goreq.timer = "armed"
    /\ goreq' = [goreq EXCEPT !.timer = "running"]
    /\ UNCHANGED outsideGoReq

\* s.pendingRequests.Delete(ackID) in the AfterFunc function (socket.go 173)
timerDelete ==
    /\ running
    /\ goreq.timer = "running"
    /\ goreq' = [goreq EXCEPT !.timer = "deleted", !.pending = FALSE]
    /\ UNCHANGED outsideGoReq

\* close(replyChan) in the AfterFunc function (socket.go 174)
timerClose ==
    /\ running
    /\ goreq.timer = "deleted"
    /\ goreq' = [goreq EXCEPT !.timer = "closed", !.closed = TRUE]
    /\ UNCHANGED outsideGoReq

\* go s.handleMessage(&msg) for a frame of type "ack" with the request's ackId
\* (socket.go 63, 92-93): the peer knows the ackId once the request is emitted
ackLoad(a) ==
    /\ running
    /\ goreq.caller \in {"waiting", "returned"}
    /\ goreq.ack[a] = "none"
    /\ goreq' = [goreq EXCEPT !.ack[a] = IF goreq.pending THEN "loaded" ELSE "done"]
    /\ UNCHANGED outsideGoReq

\* pr.timer.Stop() (socket.go 95): stops a timer that has not fired
ackStop(a) ==
    /\ running
    /\ goreq.ack[a] = "loaded"
    /\ goreq' = [goreq EXCEPT !.ack[a] = "sending",
                              !.timer = IF @ = "armed" THEN "stopped" ELSE @]
    /\ UNCHANGED outsideGoReq

\* pr.replyChan <- msg.Data (socket.go 96): panics on a closed channel, blocks
\* while the buffer of one is full
ackSend(a) ==
    /\ running
    /\ goreq.ack[a] = "sending"
    /\ goreq.closed \/ goreq.buffered = 0
    /\ goreq' = IF goreq.closed
                THEN [goreq EXCEPT !.ack[a] = "panicked", !.panic = TRUE]
                ELSE [goreq EXCEPT !.ack[a] = "sent", !.buffered = 1]
    /\ UNCHANGED outsideGoReq

\* s.pendingRequests.Delete(msg.AckID) (socket.go 97)
ackDelete(a) ==
    /\ running
    /\ goreq.ack[a] = "sent"
    /\ goreq' = [goreq EXCEPT !.ack[a] = "done", !.pending = FALSE]
    /\ UNCHANGED outsideGoReq

-----------------------------------------------------------------------------
(* The goroutines of a Go socket: readPump, writePump, the callers of emit,    *)
(* and App.Close (go/emit/socket.go 44-88, 153-158, 245-265; part_008 124-157) *)
(* A pump is at "select" (top of its loop), in a conn call ("reading",         *)
(* "writing"), at its deferred s.disconnect() ("deferred"), or has "ended".    *)
(* blocked[s]: a goroutine is blocked in emit on the full channel of s.        *)

\* the connections whose goroutines are followed
LoopSockets == {"s1", "s2"}

Pumps == {"read", "write"}

InitGoLife ==
    golife = [appDone     |-> FALSE,
              atClose     |-> {},
              conn        |-> [s \in LoopSockets |-> "none"],
              cancelled   |-> [s \in LoopSockets |-> FALSE],
              index       |-> {},
              read        |-> [s \in LoopSockets |-> "none"],
              write       |-> [s \in LoopSockets |-> "none"],
              queued      |-> [s \in LoopSockets |-> 0],
              blocked     |-> [s \in LoopSockets |-> FALSE],
              disconnects |-> [s \in LoopSockets |-> 0],
              handled     |-> [s \in LoopSockets |-> 0]]

\* a socket context that is no child of the App's context
ctxDone_own(s) == golife.cancelled[s]

\* <-s.ctx.Done() is ready: the socket's context is a child of the App's
\* (socket.go 31), cancelled by s.cancel() or by a.cancel()
ctxDone(s) == golife.cancelled[s] \/ golife.appDone

\* App.handleWebSocket (part_008 132-157): store the socket, start both pumps
goAccept(s) ==
    /\ golife.conn[s] = "none"
    /\ golife' = [golife EXCEPT !.conn[s] = "open",
                                !.index = @ \cup {s},
                                !.read[s] = "select",
                                !.write[s] = "select"]
    /\ UNCHANGED outsideGoLife

\* App.Close (part_008 124-130): a.cancel(); Shutdown leaves the hijacked
\* websocket connections alone
appClose ==
    /\ ~golife.appDone
    /\ golife' = [golife EXCEPT !.appDone = TRUE, !.atClose = golife.index]
    /\ UNCHANGED outsideGoLife

\* the peer closes the connection or the network fails
connLost(s) ==
    /\ golife.conn[s] = "open"
    /\ golife' = [golife EXCEPT !.conn[s] = "lost"]
    /\ UNCHANGED outsideGoLife

\* readPump: select { case <-s.ctx.Done(): return; default: s.conn.Read }
\* (socket.go 47-52)
readSelect(s) ==
    /\ golife.read[s] = "select"
    /\ golife' = [golife EXCEPT !.read[s] = IF ctxDone(s) THEN "deferred" ELSE "reading"]
    /\ UNCHANGED outsideGoLife

\* s.conn.Read returns a frame: go s.handleMessage (socket.go 52-63)
readFrame(s) ==
    /\ golife.read[s] = "reading"
    /\ golife.conn[s] = "open"
    /\ golife' = [golife EXCEPT !.read[s] = "select"]
    /\ UNCHANGED outsideGoLife

\* s.conn.Read returns an error: return (socket.go 52-55)
readError(s) ==
    /\ golife.read[s] = "reading"
    /\ golife.conn[s] # "open" \/ ctxDone(s)
    /\ golife' = [golife EXCEPT !.read[s] = "deferred"]
    /\ UNCHANGED outsideGoLife

\* writePump: case <-s.ctx.Done(): return (socket.go 72-74)
writeSelectDone(s) ==
    /\ golife.write[s] = "select"
    /\ ctxDone(s)
    /\ golife' = [golife EXCEPT !.write[s] = "deferred"]
    /\ UNCHANGED outsideGoLife

\* writePump: case msg := <-s.sendChan (socket.go 75-80)
writeSelectMsg(s) ==
    /\ golife.write[s] = "select"
    /\ golife.queued[s] > 0
    /\ golife' = [golife EXCEPT !.write[s] = "writing", !.queued[s] = @ - 1]
    /\ UNCHANGED outsideGoLife

\* s.conn.Write returns nil (socket.go 82-86)
writeOk(s) ==
    /\ golife.write[s] = "writing"
    /\ golife.conn[s] = "open"
    /\ golife' = [golife EXCEPT !.write[s] = "select"]
    /\ UNCHANGED outsideGoLife

\* s.conn.Write returns an error: return (socket.go 82-84)
writeError(s) ==
    /\ golife.write[s] = "writing"
    /\ golife' = [golife EXCEPT !.write[s] = "deferred"]
    /\ UNCHANGED outsideGoLife

\* defer s.disconnect() of a pump (socket.go 45, 69) running Socket.disconnect
\* (socket.go 245-265) with a handler registered for "@disconnect"
pumpDisconnect(s, pump) ==
    /\ golife[pump][s] = "deferred"
    /\ golife' = [golife EXCEPT ![pump][s] = "ended",
                                !.cancelled[s] = TRUE,
                                !.conn[s] = "closed",
                                !.index = @ \ {s},
                                !.disconnects[s] = @ + 1,
                                !.handled[s] = @ + 1]
    /\ UNCHANGED outsideGoLife

\* a goroutine calls Socket.emit (socket.go 153-158): the select sends when the
\* channel has room, returns when the context is done, and blocks otherwise
goEmit(s) ==
    /\ golife.conn[s] # "none"
    /\ \/ /\ golife.queued[s] < MaxQueued
          /\ golife' = [golife EXCEPT !.queued[s] = @ + 1]
       \/ /\ ctxDone(s)
          /\ UNCHANGED golife
       \/ /\ golife.queued[s] = MaxQueued
          /\ ~ctxDone(s)
          /\ ~golife.blocked[s]
          /\ golife' = [golife EXCEPT !.blocked[s] = TRUE]
    /\ UNCHANGED outsideGoLife

\* a goroutine blocked in Socket.emit proceeds: case s.sendChan <- msg
goEmitSend(s) ==
    /\ golife.blocked[s]
    /\ golife.queued[s] < MaxQueued
    /\ golife' = [golife EXCEPT !.blocked[s] = FALSE, !.queued[s] = @ + 1]
    /\ UNCHANGED outsideGoLife

\* a goroutine blocked in Socket.emit proceeds: case <-s.ctx.Done()
goEmitDone(s) ==
    /\ golife.blocked[s]
    /\ ctxDone(s)
    /\ golife' = [golife EXCEPT !.blocked[s] = FALSE]
    /\ UNCHANGED outsideGoLife

-----------------------------------------------------------------------------
(* An instance that receives relayed broadcasts: the subscribe handlers of the *)
(* two redis adapters, plugins/redis.js and unnamed/part_002, resolving `to`   *)
(* against the local sockets, rooms (server.js 232-237) and tags (246-261)     *)

SubSockets == 1..MaxSubSockets

Adapters == {"plugins/redis.js", "unnamed/part_002"}

SubRoomArgs == {<<"r">>}
SubTagArgs  == {<<"t">>, <<"*", "t">>}
SubToArgs   == {<<>>, <<"#", "r">>, <<"*", "t">>, <<"*", "u">>}

NoRelayed == [made |-> FALSE, to |-> <<>>, emits |-> [s \in SubSockets |-> 0]]

InitSub ==
    sub = [adapter |-> "none",
           ws      |-> [s \in SubSockets |-> "none"],
           sockets |-> {},
           rooms   |-> <<>>,
           joined  |-> [s \in SubSockets |-> {}],
           tags    |-> [s \in SubSockets |-> {}],
           relayed |-> NoRelayed]

\* the subscribe handler of plugins/redis.js (36-41)
subTargets_basic(to) ==
    IF to # <<>> /\ startsWith(to, "#")
    THEN IF to \in DOMAIN sub.rooms THEN sub.rooms[to] ELSE {}
    ELSE sub.sockets

\* the subscribe handler of unnamed/part_002 (52-62); socket.hasTag is
\* server.js 258-261
subTargets_full(to) ==
    IF to # <<>> /\ startsWith(to, "#")
    THEN IF to \in DOMAIN sub.rooms THEN sub.rooms[to] ELSE {}
    ELSE IF to # <<>> /\ startsWith(to, "*")
         THEN {s \in sub.sockets : tagKey(to) \in sub.tags[s]}
         ELSE sub.sockets

\* app.plugin(redisAdapter(...)) with one of the two adapters
subPlugin(adapter) ==
    /\ sub.adapter = "none"
    /\ sub' = [sub EXCEPT !.adapter = adapter]
    /\ UNCHANGED outsideSub

\* EmitApp._handleConnection (server.js 33-48)
subConnection(s) ==
    /\ sub.ws[s] = "none"
    /\ sub' = [sub EXCEPT !.ws[s] = "open", !.sockets = @ \cup {s}, !.relayed = NoRelayed]
    /\ UNCHANGED outsideSub

\* socket.join(room) (server.js 232-237)
subJoin(s, room) ==
    /\ sub.ws[s] = "open"
    /\ sub' = [sub EXCEPT !.joined[s] = @ \cup {roomKey(room)},
                          !.rooms = joinRoom(@, roomKey(room), s),
                          !.relayed = NoRelayed]
    /\ UNCHANGED outsideSub

\* socket.tag(name) (server.js 246-250)
subTag(s, name) ==
    /\ sub.ws[s] = "open"
    /\ sub' = [sub EXCEPT !.tags[s] = @ \cup {tagKey(name)}, !.relayed = NoRelayed]
    /\ UNCHANGED outsideSub

\* socket.untag(name) (server.js 252-256)
subUntag(s, name) ==
    /\ sub.ws[s] = "open"
    /\ sub' = [sub EXCEPT !.tags[s] = @ \ {tagKey(name)}, !.relayed = NoRelayed]
    /\ UNCHANGED outsideSub

\* the close listener of a socket (server.js 220-229)
subClose(s) ==
    /\ sub.ws[s] = "open"
    /\ sub' = [sub EXCEPT !.ws[s] = "closed",
                          !.sockets = @ \ {s},
                          !.rooms = leaveEach(@, sub.joined[s], s),
                          !.joined[s] = {},
                          !.relayed = NoRelayed]
    /\ UNCHANGED outsideSub

\* sub.on('message') for a primary-channel message of another instance
\* (plugins/redis.js 24-47, unnamed/part_002 34-69)
subMessage(to) ==
    /\ sub.adapter \in Adapters
    /\ LET hit == IF sub.adapter = "plugins/redis.js"
                  THEN subTargets_basic(to)
                  ELSE subTargets_full(to)
       IN  sub' = [sub EXCEPT !.relayed =
                      [made |-> TRUE, to |-> to,
                       emits |-> [s \in SubSockets |-> IF s \in hit THEN 1 ELSE 0]]]
    /\ UNCHANGED outsideSub

-----------------------------------------------------------------------------
(* The listeners of an EmitClient for one event (client.js 147-198).           *)
(* A list entry is a function: the callback itself for on(), a fresh           *)
(* onceWrapper for once(); `id` tells the functions apart.  The callbacks of   *)
(* the application do nothing to the client.                                   *)

Callbacks == {"f", "g"}

Registrations == 1..MaxRegistrations

Waits == 1..MaxWaits

\* wait = 0: no waitFor made this registration
Listener(id, kind, cb, wait) == [id |-> id, kind |-> kind, cb |-> cb, wait |-> wait]

NoDelivery ==
    [op |-> "none", atStart |-> <<>>, cb |-> "", calls |-> [i \in Registrations |-> 0]]

InitListen ==
    lsn = [list   |-> <<>>,
           nextId |-> 1,
           waits  |-> [w \in Waits |-> "none"],
           timer  |-> [w \in Waits |-> FALSE],
           last   |-> NoDelivery]

\* list.splice(index, 1)
splice(list, at) ==
    [i \in 1..(Len(list) - 1) |-> IF i < at THEN list[i] ELSE list[i + 1]]

\* list.indexOf(callback) (client.js 192): the position of the function
\* `callback` itself, 0 when it is not in the list; a onceWrapper is another
\* function than the callback it wraps
indexOf(list, cb) ==
    IF \E i \in DOMAIN list : list[i].kind = "on" /\ list[i].cb = cb
    THEN CHOOSE i \in DOMAIN list :
             /\ list[i].kind = "on" /\ list[i].cb = cb
             /\ \A j \in 1..(i - 1) : ~(list[j].kind = "on" /\ list[j].cb = cb)
    ELSE 0

\* EmitClient.off(event, callback) (client.js 189-198)
off(list, cb) ==
    IF indexOf(list, cb) > 0 THEN splice(list, indexOf(list, cb)) ELSE list

\* the handler of waitFor (client.js 172-175): clearTimeout, resolve
waitHandler(k, w) ==
    [k EXCEPT !.timer[w] = FALSE,
              !.waits[w] = IF @ = "pending" THEN "resolved" ELSE @]

\* listeners.forEach(fn => fn(data, ack)) (client.js 150) from index i (1-based)
\* on the listener array itself: forEach visits the indices below the length
\* the array had at the start that the array still has.  A onceWrapper
\* (161-164) removes itself from the array with off before it calls its
\* callback.
RECURSIVE forEach(_, _, _)
forEach(k, i, len) ==
    IF i > len \/ i > Len(k.list) THEN k
    ELSE LET fn == k.list[i]
             k1 == [k EXCEPT !.last.calls[fn.id] = @ + 1]
             k2 == IF fn.kind = "once"
                   THEN [k1 EXCEPT !.list = splice(k.list, i)]
                   ELSE k1
             k3 == IF fn.wait # 0 THEN waitHandler(k2, fn.wait) ELSE k2
         IN  forEach(k3, i + 1, len)

\* EmitClient._emitLocal(event, data, ack) (client.js 147-152)
emitLocal(k) == forEach(k, 1, Len(k.list))

\* client.on(event, cb) (client.js 153-159)
clientOn(cb) ==
    /\ lsn.nextId <= MaxRegistrations
    /\ lsn' = [lsn EXCEPT !.list = Append(@, Listener(lsn.nextId, "on", cb, 0)),
                          !.nextId = @ + 1,
                          !.last = NoDelivery]
    /\ UNCHANGED outsideListen

\* client.once(event, cb) (client.js 160-166)
clientOnce(cb) ==
    /\ lsn.nextId <= MaxRegistrations
    /\ lsn' = [lsn EXCEPT !.list = Append(@, Listener(lsn.nextId, "once", cb, 0)),
                          !.nextId = @ + 1,
                          !.last = NoDelivery]
    /\ UNCHANGED outsideListen

\* client.off(event, cb) (client.js 189-198)
clientOff(cb) ==
    /\ lsn' = [lsn EXCEPT !.list = off(@, cb),
                          !.last = [NoDelivery EXCEPT !.op = "off", !.cb = cb,
                                                      !.atStart = lsn.list]]
    /\ UNCHANGED outsideListen

\* client.waitFor(event, timeout) with timeout > 0 (client.js 168-186)
waitFor(w) ==
    /\ lsn.waits[w] = "none"
    /\ lsn.nextId <= MaxRegistrations
    /\ lsn' = [lsn EXCEPT !.list = Append(@, Listener(lsn.nextId, "once", "handler", w)),
                          !.nextId = @ + 1,
                          !.waits[w] = "pending",
                          !.timer[w] = TRUE,
                          !.last = NoDelivery]
    /\ UNCHANGED outsideListen

\* the timer of waitFor fires (client.js 180-183): this.off(event, handler),
\* reject
waitTimeout(w) ==
    /\ lsn.timer[w]
    /\ lsn' = [lsn EXCEPT !.list = off(@, "handler"),
                          !.timer[w] = FALSE,
                          !.waits[w] = IF @ = "pending" THEN "rejected" ELSE @,
                          !.last = NoDelivery]
    /\ UNCHANGED outsideListen

\* the client delivers the event locally: a frame of the event arrives
\* (client.js 104)
deliver ==
    /\ lsn' = emitLocal([lsn EXCEPT !.last = [NoDelivery EXCEPT !.op = "emit",
                                                                !.atStart = lsn.list]])
    /\ UNCHANGED outsideListen

-----------------------------------------------------------------------------
(* Registration (before the server receives frames) *)

TotalMiddleware ==
    Len(middleware)
    + (IF "a" \in DOMAIN handlers THEN Len(handlers["a"].middleware) ELSE 0)

\* app.use(fn) (59-62)
use(k) ==
    /\ frame = NoFrame
    /\ TotalMiddleware < MaxMiddleware
    /\ middleware' = Append(middleware, k)
    /\ UNCHANGED <<handlers, frame, index, replyCalled, pendingNext, wsOut, log>>
    /\ UNCHANGED outsideDispatch

\* app.on(event, ...middleware, handler) (64-69): handlers.set(event, entry).
\* Each event is registered once here: replacing an entry gives a table that
\* one on() call reaches as well, so no state is lost.
on(event, mws, h) ==
    /\ frame = NoFrame
    /\ event \notin DOMAIN handlers
    /\ Len(middleware) + Len(mws) <= MaxMiddleware
    /\ handlers' = [e \in DOMAIN handlers \cup {event} |->
                      IF e = event THEN [handler |-> h, middleware |-> mws]
                      ELSE handlers[e]]
    /\ UNCHANGED <<middleware, frame, index, replyCalled, pendingNext, wsOut, log>>
    /\ UNCHANGED outsideDispatch

-----------------------------------------------------------------------------
(* Tasks *)

\* ws.on('message') (206-218) for an event frame: JSON.parse succeeds,
\* _handleMessage (278-422) builds req and runs the global chain; whatever is
\* thrown synchronously out of it lands in the listener's catch, which calls the
\* @error handler with a context without event, or logs 'Failed to parse message'.
message(f) ==
    /\ frame = NoFrame
    /\ frame' = f
    /\ LET start == [RunState EXCEPT !.frame = f, !.index = <<0>>, !.replyCalled = FALSE]
           d     == next(start, 1)
           d1    == IF d.exc
                    THEN Logged([d EXCEPT !.exc = FALSE],
                                Ev(IF "@error" \in DOMAIN handlers
                                   THEN "errorHandler" ELSE "consoleError", 0, 1))
                    ELSE d
       IN  Commit(runMicrotasks(d1))
    /\ UNCHANGED <<handlers, middleware>>
    /\ UNCHANGED outsideDispatch

\* A middleware that returned earlier calls next() from its own task; nothing
\* of the framework is on the stack below it.
deferredNext(p) ==
    /\ p \in pendingNext
    /\ LET start == Logged([RunState EXCEPT !.pendingNext = @ \ {p}], Ev("next", p.c, p.i))
           d     == next(start, p.c)
           d1    == IF d.exc
                    THEN Logged([d EXCEPT !.exc = FALSE], Ev("uncaughtException", p.c, p.i))
                    ELSE d
       IN  Commit(runMicrotasks(d1))
    /\ UNCHANGED <<handlers, middleware, frame>>
    /\ UNCHANGED outsideDispatch

Init ==
    /\ InitRooms
    /\ InitRequests
    /\ InitFleet
    /\ InitStore
    /\ InitClient
    /\ InitBeat
    /\ InitExpress
    /\ InitNaming
    /\ InitCodec
    /\ InitNode
    /\ InitGo
    /\ InitGoReq
    /\ InitGoLife
    /\ InitSub
    /\ InitListen
    /\ handlers = <<>>
    /\ middleware = <<>>
    /\ frame = NoFrame
    /\ index = <<>>
    /\ replyCalled = FALSE
    /\ pendingNext = {}
    /\ wsOut = <<>>
    /\ log = <<>>

NextDispatch ==
    \/ \E k \in MiddlewareKinds : use(k)
    \/ \E e \in Routed, h \in HandlerKinds :
           \E mws \in Chains(MaxMiddleware) : on(e, mws, h)
    \/ \E h \in HandlerKinds : on("@any", <<>>, h)
    \/ on("@error", <<>>, "ok")
    \/ \E f \in Frames : message(f)
    \/ \E p \in pendingNext : deferredNext(p)

SpecDispatch == Init /\ [][NextDispatch]_vars

\* The same application receiving frames that carry no string event.
NextShapeless ==
    \/ \E k \in MiddlewareKinds : use(k)
    \/ \E e \in Routed, h \in HandlerKinds :
           \E mws \in Chains(MaxMiddleware) : on(e, mws, h)
    \/ \E h \in HandlerKinds : on("@any", <<>>, h)
    \/ on("@error", <<>>, "ok")
    \/ \E f \in ShapelessFrames : message(f)
    \/ \E p \in pendingNext : deferredNext(p)

SpecShapeless == Init /\ [][NextShapeless]_vars

\* Handlers are registered before the server accepts connections.
NextRooms ==
    \/ (sockets = {} /\ wsState[1] = "none" /\ on("@disconnect", <<>>, "ok"))
    \/ \E s \in Sockets : connection(s)
    \/ \E s \in Sockets, room \in RoomArgs : join(s, room)
    \/ \E s \in Sockets, room \in RoomArgs : leave(s, room)
    \/ \E s \in Sockets, name \in TagArgs : tag(s, name)
    \/ \E s \in Sockets, name \in TagArgs : untag(s, name)
    \/ \E s \in Sockets : close(s)
    \/ \E to \in ToArgs : broadcast(to)

SpecRooms == Init /\ [][NextRooms]_vars

\* the room name the handlers of this application join and leave
ReqRoomArgs == {<<"r">>}

\* Handlers that join, leave, tag, untag and call req.broadcast.
NextReqBroadcast ==
    \/ \E s \in Sockets : connection(s)
    \/ \E s \in Sockets, room \in ReqRoomArgs : join(s, room)
    \/ \E s \in Sockets, room \in ReqRoomArgs : leave(s, room)
    \/ \E s \in Sockets, name \in TagArgs : tag(s, name)
    \/ \E s \in Sockets, name \in TagArgs : untag(s, name)
    \/ \E s \in Sockets : close(s)
    \/ \E s \in Sockets, to \in ToArgs, includeSelf \in BOOLEAN : reqBroadcast(s, to, includeSelf)

SpecReqBroadcast == Init /\ [][NextReqBroadcast]_vars

NextRequests ==
    \/ \E id \in RequestIds : socketRequest(id)
    \/ \E id \in RequestIds : socketAck(id)
    \/ \E id \in RequestIds : socketTimeout(id)
    \/ \E id \in RequestIds : clientRequest(id)
    \/ \E id \in RequestIds : clientAck(id)
    \/ \E id \in RequestIds : clientTimeout(id)
    \/ clientClosed
    \/ clientReopened

\* An armed timer fires unless it is cleared first: the event loop runs every
\* timer callback that stays due.
SpecRequests ==
    /\ Init /\ [][NextRequests]_vars
    /\ \A id \in RequestIds : WF_vars(socketTimeout(id)) /\ WF_vars(clientTimeout(id))

\* Broadcasts and direct messages through the fleet.
NextRelay ==
    \/ \E i \in Instances : plugin(i)
    \/ \E i \in Instances, s \in PeerIds : peerConnection(i, s)
    \/ \E s \in PeerIds, room \in PeerRoomArgs : peerJoin(s, room)
    \/ \E s \in PeerIds, room \in PeerRoomArgs : peerLeave(s, room)
    \/ \E s \in PeerIds : peerClose(s)
    \/ \E i \in Instances, to \in PeerToArgs, local \in BOOLEAN : adapterBroadcast(i, to, local)
    \/ \E i \in Instances, s \in PeerIds : adapterEmitTo(i, s)
    \/ \E i \in Instances : subscribeMessage(i)

SpecRelay == Init /\ [][NextRelay]_vars

\* Socket presence: the application registers handlers before or after it
\* installs the adapter, and connections come and go.
NextPresence ==
    \/ \E i \in Instances, event \in {"@connection", "@disconnect"} : appOn(i, event)
    \/ \E i \in Instances : plugin(i)
    \/ \E i \in Instances, s \in PeerIds : peerConnection(i, s)
    \/ \E s \in PeerIds : peerClose(s)

SpecPresence == Init /\ [][NextPresence]_vars

\* User presence.
NextUsers ==
    \/ \E i \in Instances : plugin(i)
    \/ \E i \in Instances, s \in PeerIds : peerConnection(i, s)
    \/ \E i \in Instances, u \in Users, s \in PeerIds : setUserOnline(i, u, s)
    \/ \E i \in Instances, u \in Users : setUserOffline(i, u)
    \/ \E i \in Instances, u \in Users : isUserOnline(i, u)
    \/ \E i \in Instances, u \in Users : getUserSocketId(i, u)
    \/ \E i \in Instances, u \in Users : emitToUser(i, u)

SpecUsers == Init /\ [][NextUsers]_vars

\* Room membership mirrored into the store, and the expiry of its sets.
NextRoomSync ==
    \/ \E i \in Instances : plugin(i)
    \/ \E i \in Instances, s \in PeerIds : peerConnection(i, s)
    \/ \E s \in PeerIds, room \in PeerRoomArgs : peerJoin(s, room)
    \/ \E s \in PeerIds, room \in PeerRoomArgs : peerLeave(s, room)
    \/ \E s \in PeerIds : peerClose(s)
    \/ \E r \in PeerRoomKeys : roomExpires(r)

SpecRoomSync == Init /\ [][NextRoomSync]_vars

\* One client, its transports and its timers.
NextClient ==
    \/ \E kind \in ClientKinds : construct(kind)
    \/ \E t \in 1..MaxTransports : wsOpen(t)
    \/ \E t \in 1..MaxTransports : wsError(t)
    \/ \E t \in 1..MaxTransports : wsClose(t)
    \/ \E throws \in BOOLEAN : reconnectTimeout(throws)
    \/ callerClose

SpecClient == Init /\ [][NextClient]_vars

\* One client and the connect calls of its application.
NextConnect ==
    \/ NextClient
    \/ staticConnect
    \/ connectTimeout
    \/ \E throws \in BOOLEAN : connect(throws)

SpecConnect == Init /\ [][NextConnect]_vars

\* An app with the heartbeat plugin and its connections.
NextHeartbeat ==
    \/ heartbeat
    \/ onConnection
    \/ onPing
    \/ \E s \in BeatSockets : beatConnection(s)
    \/ \E s \in BeatSockets : pong(s)
    \/ \E s \in BeatSockets : tick(s)
    \/ \E s \in BeatSockets : beatClose(s)

SpecHeartbeat == Init /\ [][NextHeartbeat]_vars

\* The Express-style app, its connections and their frames.
NextExpress ==
    \/ \E kind \in UseKinds : expressUse(kind)
    \/ expressOn
    \/ expressOnAny
    \/ \E s \in Guests : expressConnection(s)
    \/ \E s \in Guests : expressNext(s)
    \/ \E s \in Guests : expressMessage(s)

SpecExpress == Init /\ [][NextExpress]_vars

\* the strings of a chain and an event joined by `sep`
RECURSIVE JoinWith(_, _)
JoinWith(parts, sep) ==
    IF Len(parts) = 1 THEN parts[1] ELSE parts[1] \o sep \o JoinWith(Tail(parts), sep)

\* the event strings a client sends: every prefixed form of every event, with
\* and without the separator, and the events alone
FrameEvents ==
    {JoinWith(c \o <<e>>, sep) :
        c \in PrefixChains \cup {<<>>}, e \in LocalEvents, sep \in {<<":">>, <<>>}}

\* One registration through namespaces, and one frame.
NextNaming ==
    \/ \E variant \in NsVariants, chain \in PrefixChains, event \in LocalEvents :
           namespaceOn(variant, chain, event)
    \/ \E event \in FrameEvents : namespaceFrame(event)

SpecNaming == Init /\ [][NextNaming]_vars

\* Senders encode, receivers decode.
NextCodec ==
    \/ \E event \in EventArgs, data \in DataArgs, ackId \in AckIdArgs :
           encodeCall(event, data, ackId)
    \/ \E ackId \in AckIdArgs, data \in DataArgs : encodeAckCall(ackId, data)
    \/ decodeCall

SpecCodec == Init /\ [][NextCodec]_vars

\* The EmitServer of the node transport, its sockets and rooms.
NextNode ==
    \/ \E s \in NodeSockets : nodeConnection(s)
    \/ \E s \in NodeSockets, room \in NodeRooms : nodeJoin(s, room)
    \/ \E s \in NodeSockets, room \in NodeRooms : nodeLeave(s, room)
    \/ \E s \in NodeSockets : nodeClose(s)
    \/ \E s \in NodeSockets, room \in NodeRooms : toEmit(s, room)

SpecNode == Init /\ [][NextNode]_vars

\* The App of the Go implementation, its sockets, rooms and tags.
NextGo ==
    \/ \E s \in GoSockets : handleWebSocket(s)
    \/ \E s \in GoSockets, room \in GoRoomArgs : goJoin(s, room)
    \/ \E s \in GoSockets, room \in GoRoomArgs : goLeave(s, room)
    \/ \E s \in GoSockets, name \in GoTagArgs : goTag(s, name)
    \/ \E s \in GoSockets, name \in GoTagArgs : goUntag(s, name)
    \/ \E s \in GoSockets : goDisconnect(s)
    \/ \E to \in GoTargets : goBroadcast(to)

SpecGo == Init /\ [][NextGo]_vars

\* One Socket.Request of the Go implementation, its timer and the
\* acknowledgment frames that answer it, interleaved statement by statement.
NextGoReq ==
    \/ requestArm
    \/ requestStore
    \/ requestEmit
    \/ requestReceive
    \/ timerFire
    \/ timerDelete
    \/ timerClose
    \/ \E a \in AckFrames : ackLoad(a)
    \/ \E a \in AckFrames : ackStop(a)
    \/ \E a \in AckFrames : ackSend(a)
    \/ \E a \in AckFrames : ackDelete(a)

SpecGoReq == Init /\ [][NextGoReq]_vars

\* The goroutines of the Go sockets and App.Close.
NextGoLife ==
    \/ \E s \in LoopSockets : goAccept(s)
    \/ appClose
    \/ \E s \in LoopSockets : connLost(s)
    \/ \E s \in LoopSockets : readSelect(s)
    \/ \E s \in LoopSockets : readFrame(s)
    \/ \E s \in LoopSockets : readError(s)
    \/ \E s \in LoopSockets : writeSelectDone(s)
    \/ \E s \in LoopSockets : writeSelectMsg(s)
    \/ \E s \in LoopSockets : writeOk(s)
    \/ \E s \in LoopSockets : writeError(s)
    \/ \E s \in LoopSockets, pump \in Pumps : pumpDisconnect(s, pump)
    \/ \E s \in LoopSockets : goEmit(s)
    \/ \E s \in LoopSockets : goEmitSend(s)
    \/ \E s \in LoopSockets : goEmitDone(s)

SpecGoLife == Init /\ [][NextGoLife]_vars

\* The Go scheduler runs every goroutine that can take a step; a select picks
\* at random among its ready cases, so a case that is ready again and again is
\* taken (strong fairness for <-s.ctx.Done() in writePump).
FairGoLife ==
    \A s \in LoopSockets :
        /\ WF_vars(readSelect(s))
        /\ WF_vars(readError(s))
        /\ SF_vars(writeSelectDone(s))
        /\ WF_vars(writeOk(s) \/ writeError(s))
        /\ WF_vars(goEmitSend(s) \/ goEmitDone(s))
        /\ \A pump \in Pumps : WF_vars(pumpDisconnect(s, pump))

SpecGoLifeLive == SpecGoLife /\ FairGoLife

\* An instance with one of the adapters, its sockets, and the relayed
\* broadcasts it receives.
NextSub ==
    \/ \E adapter \in Adapters : subPlugin(adapter)
    \/ \E s \in SubSockets : subConnection(s)
    \/ \E s \in SubSockets, room \in SubRoomArgs : subJoin(s, room)
    \/ \E s \in SubSockets, name \in SubTagArgs : subTag(s, name)
    \/ \E s \in SubSockets, name \in SubTagArgs : subUntag(s, name)
    \/ \E s \in SubSockets : subClose(s)
    \/ \E to \in SubToArgs : subMessage(to)

SpecSub == Init /\ [][NextSub]_vars

\* The listeners of one event of an EmitClient.
NextListen ==
    \/ \E cb \in Callbacks : clientOn(cb)
    \/ \E cb \in Callbacks : clientOnce(cb)
    \/ \E cb \in Callbacks : clientOff(cb)
    \/ \E w \in Waits : waitFor(w)
    \/ \E w \in Waits : waitTimeout(w)
    \/ deliver

SpecListen == Init /\ [][NextListen]_vars

-----------------------------------------------------------------------------
(* Properties of the dispatch of one frame *)

Has(e) == \E p \in DOMAIN log : log[p] = e
HasKind(t) == \E p \in DOMAIN log : log[p].t = t
Before(e, p) == \E q \in 1..(p - 1) : log[q] = e
Count(t) == Cardinality({p \in DOMAIN log : log[p].t = t})

Acks == {p \in DOMAIN wsOut : wsOut[p].type = "ack" /\ wsOut[p].ackId = frame.ackId}

\* C1: for a frame that carries an ackId the socket sends at most one
\* acknowledgment frame with that ackId over the whole dispatch, whoever calls
\* req.reply (middleware, @any, handler, the synthesized 'No handler' reply).
C1_AtMostOneAck ==
    frame.ackId # NoAck => Cardinality(Acks) <= 1

\* C3: when a frame with an ackId has no handler entry, then once the global
\* chain has completed the 'No handler' acknowledgment has been sent.
C3_NoHandlerAcked ==
    (/\ frame # NoFrame
     /\ frame.ackId # NoAck
     /\ frame.event \notin DOMAIN handlers
     /\ Has(Ev("done", 1, 0)))
    => \E p \in Acks : wsOut[p].data = "NoHandler"

\* C4: every throw and every rejected promise of a middleware, the @any handler
\* or the event handler is delivered to the @error handler (or logged), and none
\* escapes as an uncaught exception or an unhandled rejection.
C4_FaultsDelivered ==
    /\ ~HasKind("uncaughtException")
    /\ ~HasKind("unhandledRejection")
    /\ Count("fault") = Count("errorHandler") + Count("consoleError")

\* No middleware called next() more than once for the frame.
NextOnce ==
    \A p, q \in DOMAIN log : (log[p].t = "next" /\ log[p] = log[q]) => p = q

NeverCallsNext(c, i) ==
    /\ Has(Ev("start", c, i))
    /\ ~Has(Ev("next", c, i))
    /\ [c |-> c, i |-> i] \notin pendingNext

-----------------------------------------------------------------------------
(* Properties of connections and rooms *)

RoomKeys == {roomKey(room) : room \in RoomArgs}

Member(s, r) == r \in DOMAIN rooms /\ s \in rooms[r]

\* C7: when the transport of a socket closes, the @disconnect handler is called
\* exactly once for it, and at that call the socket is already out of every
\* room (no room left empty behind it), out of app.sockets and out of
\* app.socketMap; a socket still open has had no @disconnect call.
C7_CloseCleansThenDisconnects ==
    \A s \in Sockets :
        /\ (wsState[s] = "closed" /\ "@disconnect" \in DOMAIN handlers)
               => /\ Len(disconnects[s]) = 1
                  /\ disconnects[s][1] = [inRoom |-> FALSE, emptyRoom |-> FALSE,
                                          inSockets |-> FALSE, inSocketMap |-> FALSE]
        /\ wsState[s] # "closed" => disconnects[s] = <<>>

\* A socket that had joined two rooms, one of them shared with a socket that is
\* still connected, has closed and its @disconnect handler has run.
C7_Witness ==
    \E s, t \in Sockets :
        /\ s # t
        /\ wsState[s] = "closed" /\ wsState[t] = "open"
        /\ Cardinality(socketRooms[s]) = 2
        /\ Len(disconnects[s]) = 1
        /\ \E r \in socketRooms[s] : Member(t, r)

\* C8: for every connected socket s and every room key r, r is in s.rooms
\* exactly when s is in the Application's member set of r.
C8_RoomIndexSymmetric ==
    \A s \in Sockets : wsState[s] = "open" =>
        \A r \in RoomKeys : (r \in socketRooms[s]) <=> Member(s, r)

\* Two connected sockets share one room and one of them is in a second room
\* that the other has left again.
C8_Witness ==
    \E s, t \in Sockets : \E r, q \in RoomKeys :
        /\ s # t /\ r # q
        /\ wsState[s] = "open" /\ wsState[t] = "open"
        /\ socketRooms[s] = {r, q}
        /\ socketRooms[t] = {r}
        /\ Member(s, q) /\ ~Member(t, q)

\* C9: the room index never holds a key whose member set is empty, and it holds
\* the key of every room a connected socket is in.
C9_NoEmptyRoom ==
    /\ \A r \in DOMAIN rooms : rooms[r] # {}
    /\ \A r \in RoomKeys :
           (\E s \in Sockets : wsState[s] = "open" /\ r \in socketRooms[s])
               => r \in DOMAIN rooms

\* A room that had a member has lost its last one (by leave or by disconnect)
\* and is gone, while another room still exists.
C9_Witness ==
    \E s \in Sockets : \E r \in RoomKeys :
        /\ wsState[s] = "closed"
        /\ r \in socketRooms[s]
        /\ r \notin DOMAIN rooms
        /\ DOMAIN rooms # {}

\* C10: a broadcast with to = '#r' calls socket.emit exactly once for every
\* member of room r, for no other socket, and for nobody when the room does not
\* exist; among the connected sockets the members are those whose own room set
\* holds '#r'.
C10_RoomBroadcast ==
    (bcast.made /\ startsWith(bcast.to, "#")) =>
        /\ \A s \in Sockets : bcast.emits[s] = IF Member(s, bcast.to) THEN 1 ELSE 0
        /\ \A s \in Sockets : wsState[s] = "open" =>
               (bcast.emits[s] = 1 <=> bcast.to \in socketRooms[s])
        /\ bcast.to \notin DOMAIN rooms => \A s \in Sockets : bcast.emits[s] = 0

\* A broadcast to a room reached its member and skipped a connected non-member.
C10_Witness ==
    /\ bcast.made /\ startsWith(bcast.to, "#")
    /\ \E s, t \in Sockets :
           /\ wsState[s] = "open" /\ wsState[t] = "open"
           /\ bcast.emits[s] = 1 /\ bcast.emits[t] = 0

\* The tag-targeted broadcast just made reached exactly the connected sockets
\* whose tag set holds its `to`, and every stored tag name starts with '*'.
C11_TagTargets ==
    /\ \A s \in Sockets : \A k \in socketTags[s] : startsWith(k, "*")
    /\ (bcast.made /\ bcast.from = 0 /\ startsWith(bcast.to, "*")) =>
           \A s \in Sockets :
               bcast.emits[s] = IF wsState[s] = "open" /\ bcast.to \in socketTags[s]
                                THEN 1 ELSE 0

\* C11: a broadcast with to = '*t' calls socket.emit exactly once for every
\* connected socket that carries tag t at that moment and for no other socket;
\* tag and untag store and remove the name with '*' prepended, so that after
\* untag(t) the socket does not carry '*t' (whichever spelling was passed) and
\* only a tag call of that socket makes it carry it again.
C11_TagBroadcast ==
    /\ []C11_TagTargets
    /\ [][\A s \in Sockets :
              /\ \A name \in TagArgs :
                     untag(s, name) => <<"*", "t">> \notin socketTags'[s]
              /\ ~(socketTags'[s] \subseteq socketTags[s])
                     => \E name \in TagArgs : tag(s, name)]_vars

\* A broadcast to '*t' reached a connected socket that carries the tag and
\* skipped a connected socket that does not.
C11_Witness ==
    /\ bcast.made /\ bcast.from = 0 /\ bcast.to = <<"*", "t">>
    /\ \E s, t \in Sockets :
           /\ wsState[s] = "open" /\ wsState[t] = "open"
           /\ bcast.to \in socketTags[s] /\ bcast.emits[s] = 1
           /\ bcast.to \notin socketTags[t] /\ bcast.emits[t] = 0

\* C12: req.broadcast calls socket.emit once for each socket that the
\* Application-level rule addresses for the same `to`, except that the
\* Request's own socket gets the call only when includeSelf is true; nobody
\* else gets one.
C12_RequestBroadcast ==
    (bcast.made /\ bcast.from # 0) =>
        \A s \in Sockets :
            bcast.emits[s] =
                IF s \in targets(bcast.to) /\ (bcast.includeSelf \/ s # bcast.from)
                THEN 1 ELSE 0

\* A req.broadcast to a room of which the own socket and another connected
\* socket are members reached the other one only (includeSelf false).
C12_Witness ==
    /\ bcast.made /\ bcast.from # 0 /\ ~bcast.includeSelf
    /\ startsWith(bcast.to, "#")
    /\ Member(bcast.from, bcast.to)
    /\ bcast.emits[bcast.from] = 0
    /\ \E s \in Sockets : s # bcast.from /\ bcast.emits[s] = 1

-----------------------------------------------------------------------------
(* Properties of the fleet *)

\* socket s is connected (to the instance that accepted it)
Connected(s) == peerHost[s] # NoInstance /\ s \in peerSockets[peerHost[s]]

\* socket s is local to instance i and addressed by `to`: by every broadcast
\* without `to`, and by '#r' when its own room set holds '#r'
Addressed(s, i, to) ==
    /\ peerHost[s] = i
    /\ Connected(s)
    /\ (to = <<>> \/ to \in peerSocketRooms[s])

\* the instances whose subscribe handler ran in this step
Handling == call'.handled \ call.handled

\* The broadcast followed: no socket got it twice, it was published once (not
\* at all with local: true) and no handle holds more than that one message; with
\* local: true no peer handled anything and no socket of a peer got it.
C13_DeliveredOnce ==
    call.kind = "broadcast" =>
        /\ \A s \in PeerIds : call.emits[s] <= 1
        /\ call.published = (IF call.local THEN 0 ELSE 1)
        /\ \A j \in Instances : Len(inbox[j]) <= call.published
        /\ \A s \in PeerIds :
               peerHost[s] \notin ({call.at} \cup call.handled) => call.emits[s] = 0
        /\ call.local =>
               /\ call.handled = {}
               /\ \A s \in PeerIds : peerHost[s] # call.at => call.emits[s] = 0

\* The steps of a broadcast: the call on X calls emit once for each addressed
\* socket local to X and for nobody else; the subscribe handler of a peer Y calls
\* emit once for each addressed socket local to Y and for nobody else; the
\* handler of X, given X's own message, calls emit for nobody.
C13_Steps ==
    /\ (call'.kind = "broadcast" /\ call'.handled = {} /\ call' # call) =>
           \A s \in PeerIds :
               call'.emits[s] = IF Addressed(s, call'.at, call'.to) THEN 1 ELSE 0
    /\ call.kind = "broadcast" =>
           \A j \in Handling : \A s \in PeerIds :
               call'.emits[s] - call.emits[s] =
                   IF j # call.at /\ Addressed(s, j, call.to) THEN 1 ELSE 0

\* C13: with the adapter on X and Y, a broadcast issued on X is delivered
\* exactly once to each addressed socket local to X (by the call) and exactly
\* once to each addressed socket local to Y (when Y handles the message), is
\* never published by Y and never delivered again on X when X receives its own
\* message, and with local: true is delivered on X only.
C13_RelayedOnce == []C13_DeliveredOnce /\ [][C13_Steps]_vars

\* A broadcast to '#r' made on one instance has been handled by both and reached
\* one member local to the caller and one member local to the peer, once each.
C13_Witness ==
    /\ call.kind = "broadcast" /\ ~call.local /\ call.to = <<"#", "r">>
    /\ call.handled = Instances
    /\ \E s, t \in PeerIds :
           /\ peerHost[s] = call.at /\ call.emits[s] = 1
           /\ peerHost[t] \in Instances \ {call.at} /\ call.emits[t] = 1

\* The emitTo followed: only the socket with the id got anything, at most once;
\* at most one message was published; and once every handle has handled it, a
\* socket that is connected to some instance got it exactly once.
C14_DirectOnce ==
    call.kind = "emitTo" =>
        /\ \A s \in PeerIds : call.emits[s] <= (IF s = call.target THEN 1 ELSE 0)
        /\ call.published <= 1
        /\ \A j \in Instances : Len(inbox[j]) <= call.published
        /\ (Quiet /\ Connected(call.target)) => call.emits[call.target] = 1

\* The steps of an emitTo: the call delivers without publishing when the socket
\* is local, and publishes one direct message without delivering otherwise; of
\* the subscribe handlers only that of the instance hosting the id delivers.
C14_Steps ==
    /\ (call'.kind = "emitTo" /\ call'.handled = {} /\ call' # call) =>
           IF Addressed(call'.target, call'.at, <<>>)
           THEN /\ call'.emits[call'.target] = 1
                /\ call'.published = 0
                /\ inbox' = inbox
           ELSE /\ \A s \in PeerIds : call'.emits[s] = 0
                /\ call'.published = 1
    /\ call.kind = "emitTo" =>
           \A j \in Handling : \A s \in PeerIds :
               call'.emits[s] - call.emits[s] =
                   IF j # call.at /\ s = call.target /\ Addressed(s, j, <<>>) THEN 1 ELSE 0

\* C14: emitTo(socketId, ...) delivers exactly once to the socket with that id
\* when it is connected to an instance of the fleet: by local lookup without
\* publishing when it is local, else by one direct-channel message that only
\* the instance hosting the id delivers; other instances deliver nothing.
C14_EmitToOnce == []C14_DirectOnce /\ [][C14_Steps]_vars

\* An emitTo for a socket of the peer was published, handled by both instances
\* and delivered once.
C14_Witness ==
    /\ call.kind = "emitTo"
    /\ peerHost[call.target] \in Instances \ {call.at}
    /\ call.published = 1
    /\ call.handled = Instances
    /\ call.emits[call.target] = 1

\* C15: whatever '@connection' and '@disconnect' handlers the application
\* registers, before or after installing the adapter, and after any sequence
\* of accepts and disconnects, the fields of the socket-presence hash are the
\* ids of the sockets connected fleet-wide: getAllSocketIds() returns exactly
\* those ids and getTotalSockets() their number.
C15_PresenceExact ==
    /\ getAllSocketIds = {s \in PeerIds : Connected(s)}
    /\ getTotalSockets = Cardinality({s \in PeerIds : Connected(s)})

\* the connected sockets of all instances whose own room set holds the key
Joined(r) == {s \in PeerIds : Connected(s) /\ r \in peerSocketRooms[s]}

Closed(s) == peerHost[s] # NoInstance /\ ~Connected(s)

C18_UserPresence ==
    LET s == userCall.told[userCall.user]
    IN  /\ (userCall.op = "isUserOnline" /\ s # 0)
               => userCall.settled = "resolved" /\ userCall.value = (IF s > 0 THEN 1 ELSE 0)
        /\ (userCall.op \in {"getUserSocketId", "emitToUser"} /\ s # 0)
               => userCall.settled = "resolved" /\ userCall.value = (IF s > 0 THEN s ELSE 0)

-----------------------------------------------------------------------------
(* Properties of the clients *)

\* C19: after the caller has called close() / disconnect(), the client fires no
\* reconnect attempt and so opens no new transport, also when the call came
\* while a reconnect timer was pending or an attempt was in flight.
C19_NoReconnectAfterClose == ~clientHist.after

\* no timer is pending and no transport has an event to come
ConnectQuiet ==
    /\ client.kind # "none"
    /\ client.timers = 0
    /\ ~client.connectTimer
    /\ \A t \in DOMAIN client.transports : client.transports[t].state \in {"open", "closed"}

\* C21: the promise of a connect call does not stay pending: once no timer is
\* pending and no transport has an event to come, the promise is settled; it
\* is resolved only if a transport opened.
C21_ConnectSettles ==
    /\ ConnectQuiet => clientHist.promise # "pending"
    /\ clientHist.promise = "resolved" => clientHist.opened

\* C22: as long as no transport of the client has opened, the client has
\* scheduled no reconnect attempt.
C22_NoRetryBeforeOpen ==
    ~clientHist.opened =>
        /\ client.timers = 0
        /\ client.reconnectAttempts = 0
        /\ clientHist.tries = 0

\* nothing of the client is pending: no timer, no handshake, no close event
ClientIdle ==
    /\ client.kind # "none"
    /\ client.timers = 0
    /\ \A t \in DOMAIN client.transports : client.transports[t].state = "closed"

\* C20: with reconnection enabled and the bound MaxRetries, as long as the
\* caller has not closed the client: after an unintentional close the client
\* fires at most MaxRetries reconnect attempts without an open in between
\* (the count starts again at every successful open); it emits the terminal
\* failure event at most once, only after exactly MaxRetries attempts and with
\* no timer and no handshake left; and when every attempt has failed and
\* nothing is pending any more, it has fired exactly MaxRetries attempts and
\* emitted the terminal event once.
C20_RetriesThenFails ==
    ~clientHist.closed =>
        /\ clientHist.tries <= MaxRetries
        /\ clientHist.terminal <= 1
        /\ clientHist.terminal = 1 =>
               /\ clientHist.tries = MaxRetries
               /\ client.timers = 0
               /\ \A t \in DOMAIN client.transports :
                      client.transports[t].state # "connecting"
        /\ ClientIdle => (clientHist.tries = MaxRetries /\ clientHist.terminal = 1)

\* After a reconnect that succeeded, the connection closed again, MaxRetries
\* attempts failed and the terminal event was emitted.
C20_Witness ==
    /\ ~clientHist.closed
    /\ clientHist.reopened
    /\ ClientIdle
    /\ clientHist.tries = MaxRetries
    /\ clientHist.terminal = 1

\* C26: a frame that is valid JSON, is no acknowledgment and carries no string
\* event is discarded: no middleware, no @any handler and no event handler has
\* run for it, and no acknowledgment was sent.
C26_ShapelessDiscarded ==
    frame \in ShapelessFrames =>
        /\ wsOut = <<>>
        /\ \A i \in DOMAIN log : log[i].t \notin {"start", "any", "handler"}

-----------------------------------------------------------------------------
(* Properties of the heartbeat plugin *)

\* C23: every connection the transport accepted with the plugin installed has
\* a running liveness timer for as long as it is open, and no open connection
\* has gone through two ticks without a pong in between.
C23_EveryConnectionTimed ==
    \A s \in BeatSockets :
        (beat.covered[s] /\ beat.ws[s] = "open") =>
            /\ beat.timer[s]
            /\ beat.missed[s] <= 1

\* C24: every tick that finds the connection alive while an @ping entry is
\* registered has called the @ping handler, once, and no tick has thrown.
C24_PingHandlerCalled ==
    \A s \in BeatSockets :
        /\ beat.pinged[s] = beat.alive[s]
        /\ beat.faults[s] = 0

-----------------------------------------------------------------------------
(* Properties of the Express-style app *)

\* C25: no handler registered with on or onAny was invoked for a frame of a
\* connection whose middleware chain had not completed at that time.
C25_NoHandlerBeforeChain ==
    \A s \in Guests : \A c \in express.invoked[s] : c[2]

-----------------------------------------------------------------------------
(* Properties of namespaces *)

\* the separator the claim names for a variant
SepOf(variant) == IF variant = "express" THEN <<":">> ELSE <<>>

\* the forms with fewer prefixes: the event alone, and the event behind any
\* proper part of the chain
ShorterForms(chain, event, sep) ==
    {event} \cup
    {JoinWith(SubSeq(chain, i, j) \o <<event>>, sep) :
        <<i, j>> \in {p \in (1..Len(chain)) \X (1..Len(chain)) :
                        p[1] <= p[2] /\ p[2] - p[1] + 1 < Len(chain)}}

\* C27: the handler registered under event e through namespaces p1..pk is
\* invoked for a frame if and only if the event string of the frame is p1..pk
\* and e joined by ':' (Express-style) or concatenated (canonical); it is not
\* invoked for e alone or for a form with fewer prefixes.
C27_ExactFullName ==
    naming.frame # NoName =>
        /\ naming.invoked <=>
               naming.frame = JoinWith(naming.chain \o <<naming.event>>, SepOf(naming.variant))
        /\ naming.frame \in ShorterForms(naming.chain, naming.event, SepOf(naming.variant))
               => ~naming.invoked

\* A handler registered two namespaces deep was invoked by the full name.
C27_Witness ==
    /\ naming.variant = "express"
    /\ Len(naming.chain) = 2
    /\ naming.invoked
    /\ naming.frame = naming.chain[1] \o <<":">> \o naming.chain[2] \o <<":">> \o naming.event

-----------------------------------------------------------------------------
(* Properties of the wire format *)

Decoded == codec.decoded # [type |-> Undef]

\* what the round trip of the last call has to give back
RoundTrip ==
    IF codec.op = "encode"
    THEN codec.decoded = [type |-> MessageType.EVENT, event |-> codec.event,
                          data |-> codec.data, ackId |-> codec.ackId]
    ELSE codec.decoded = [type |-> MessageType.ACK, ackId |-> codec.ackId,
                          data |-> codec.data]

-----------------------------------------------------------------------------
(* Properties of the node transport *)

\* C29: socket.to(room).emit delivers the event once to every socket that is a
\* member of the room at the time of the call, the calling socket included
\* when it is a member, and to nobody else.
C29_ToEmitReachesAll ==
    node.sent.made =>
        \A s \in NodeSockets :
            node.sent.emits[s] = IF node.sent.room \in node.socketRooms[s] THEN 1 ELSE 0

-----------------------------------------------------------------------------
(* Properties of the Go implementation *)

\* C30: App.Broadcast called with an empty `to` delivers the event to every
\* socket that is in the socket index of the process at the time of the call.
C30_BroadcastAbsentTo ==
    (goapp.sent.made /\ goapp.sent.to = <<>>) =>
        \A s \in GoSockets :
            goapp.sent.emits[s] = IF s \in goapp.sockets THEN 1 ELSE 0

\* C31: the room index of the Go App never retains a room with no members:
\* after the last member of a room leaves or disconnects, the room's entry is
\* deleted from App.rooms.
C31_NoEmptyGoRoom ==
    \A room \in DOMAIN goapp.rooms : goapp.rooms[room] # {}

\* C32: under every interleaving of the timer, the acknowledgment frames with
\* the request's ackId and the waiting caller, no acknowledgment-handling
\* goroutine sends on a closed reply channel, and none is left blocked on the
\* reply channel after Socket.Request has returned its one outcome.
C32_RequestSettlesSafely ==
    /\ \A a \in AckFrames : goreq.ack[a] # "panicked"
    /\ \A a \in AckFrames :
          ~(/\ goreq.ack[a] = "sending"
            /\ goreq.caller = "returned"
            /\ goreq.buffered = 1
            /\ goreq.timer \in {"stopped", "closed"}
            /\ ~goreq.closed)

\* every pump of every socket has terminated, the socket index is empty,
\* and no goroutine is blocked in emit
ShutDown ==
    /\ \A s \in LoopSockets :
          /\ golife.read[s] \in {"none", "ended"}
          /\ golife.write[s] \in {"none", "ended"}
          /\ ~golife.blocked[s]
    /\ golife.index = {}

\* C33: after App.Close() the read loop and the write loop of every open
\* socket eventually terminate, every socket is removed from the socket
\* index, and every goroutine blocked in emit on a full send channel is
\* released.
C33_CloseStopsEverything ==
    golife.appDone ~> ShutDown

\* C33 (witness): App.Close() was called while every socket was in the index,
\* and every loop has terminated since.
C33_Witness ==
    /\ golife.appDone
    /\ golife.atClose = LoopSockets
    /\ ShutDown

\* C40: the socket's cleanup (Socket.disconnect) runs once per connection and
\* the @disconnect handler is invoked once, whichever pump terminates first
\* and however the connection ends.
C40_DisconnectOnce ==
    \A s \in LoopSockets :
        /\ golife.disconnects[s] <= 1
        /\ golife.handled[s] <= 1
        /\ (golife.read[s] = "ended" /\ golife.write[s] = "ended") => golife.handled[s] = 1

\* C34: a relayed broadcast whose `to` is a tag is delivered by the receiving
\* instance to its local sockets that carry the tag, once each, and to no
\* other socket.
C34_RelayedTagOnly ==
    (sub.relayed.made /\ startsWith(sub.relayed.to, "*")) =>
        \A s \in SubSockets :
            sub.relayed.emits[s] =
                IF s \in sub.sockets /\ sub.relayed.to \in sub.tags[s] THEN 1 ELSE 0

\* C35: every socket in the member set of any room is in the Application's
\* socket index, also after a join performed on a socket whose transport has
\* closed.
C35_MembersIndexed ==
    \A r \in DOMAIN rooms : rooms[r] \subseteq sockets

\* socket s is a member of the room, or carries the tag, that `to` names
\* (with or without its '#' or '*' prefix, the forms join and tag accept)
NamedBy(s, to) ==
    \/ roomKey(to) \in DOMAIN rooms /\ s \in rooms[roomKey(to)]
    \/ tagKey(to) \in socketTags[s]

\* C36: a broadcast called with a non-empty `to` is never delivered to a
\* socket that is not a member of the addressed room or tag, also when `to`
\* is written without its '#' or '*' prefix.
C36_OnlyAddressed ==
    (bcast.made /\ bcast.to # <<>>) =>
        \A s \in Sockets : bcast.emits[s] > 0 => NamedBy(s, bcast.to)

\* the transports that are connecting or open and carry the client's handlers
LiveTransports ==
    {t \in DOMAIN client.transports :
        /\ client.transports[t].state \in {"connecting", "open"}
        /\ client.transports[t].on = "client"}

\* C38: an EmitClient holds at most one live transport at any time, also when
\* connect() is called while it is connected or while a reconnect attempt is
\* scheduled or in flight.
C38_OneLiveTransport ==
    client.kind = "universal" => Cardinality(LiveTransports) <= 1

-----------------------------------------------------------------------------
(* Properties of the client's listeners *)

\* C37: when the client delivers an event locally, every listener registered
\* with on() for the event at the start of the delivery is invoked exactly
\* once, also when a once() or waitFor listener removes itself during the
\* delivery.
C37_EveryListenerCalled ==
    lsn.last.op = "emit" =>
        \A i \in DOMAIN lsn.last.atStart :
            lsn.last.atStart[i].kind = "on" => lsn.last.calls[lsn.last.atStart[i].id] = 1

\* C39: the listener of a waitFor that was rejected by its timeout is no
\* longer registered, and off(event, cb) removes a listener that was
\* registered with once(event, cb): with no on(event, cb) registered as well,
\* no listener for cb is left after the call.
C39_RemovedListeners ==
    /\ \A i \in DOMAIN lsn.list :
          lsn.list[i].wait # 0 => lsn.waits[lsn.list[i].wait] # "rejected"
    /\ (/\ lsn.last.op = "off"
        /\ \A i \in DOMAIN lsn.last.atStart :
              lsn.last.atStart[i].cb = lsn.last.cb => lsn.last.atStart[i].kind = "once")
       => \A i \in DOMAIN lsn.list : lsn.list[i].cb # lsn.last.cb

-----------------------------------------------------------------------------
(* Properties of outbound requests *)

\* The promise, the Map entry and the timer of every request agree: a request
\* that has not settled has its entry and its armed timer and no resolve/reject
\* call yet; a settled one had exactly one such call and has neither entry nor
\* timer left.
C2_SettledOnceState ==
    \A o \in Owners : \A id \in RequestIds :
        /\ outcome[o][id] = "unused"
               => settles[o][id] = 0 /\ id \notin pendingRequests[o] /\ id \notin timers[o]
        /\ outcome[o][id] = "pending"
               => settles[o][id] = 0 /\ id \in pendingRequests[o] /\ id \in timers[o]
        /\ outcome[o][id] \in {"resolved", "rejected"}
               => settles[o][id] = 1 /\ id \notin pendingRequests[o] /\ id \notin timers[o]

\* C2: every outbound request settles exactly once: the first acknowledgment
\* with its ackId resolves it or its timer rejects it, that outcome removes the
\* entry, nothing changes it afterwards, and no request stays pending forever.
C2_RequestSettlesOnce ==
    /\ []C2_SettledOnceState
    /\ [][\A o \in Owners : \A id \in RequestIds :
              outcome[o][id] \in {"resolved", "rejected"}
                  => /\ outcome'[o][id] = outcome[o][id]
                     /\ settles'[o][id] = settles[o][id]]_vars
    /\ \A o \in Owners : \A id \in RequestIds :
           (outcome[o][id] = "pending") ~> (outcome[o][id] \in {"resolved", "rejected"})

\* On each side one request was resolved by its acknowledgment and another was
\* rejected by its timer.
C2_Witness ==
    \A o \in Owners :
        /\ \E id \in RequestIds : outcome[o][id] = "resolved" /\ settles[o][id] = 1
        /\ \E id \in RequestIds : outcome[o][id] = "rejected" /\ settles[o][id] = 1

====
